---- MODULE Spec2Model ----
(***************************************************************************)
(* A model of the radix-colors-tailwind generator: the per-family parse    *)
(* and emission pipeline (parseAndGenerateCombinedCss), the comparator     *)
(* sortVarNames and the colour converters it drives.                       *)
(*                                                                         *)
(* Strings are TLA+ strings; a text (a source file, the CSS content) is    *)
(* held as the sequence of its lines, text.split("\n").                    *)
(***************************************************************************)
EXTENDS Integers, Sequences, FiniteSets, TLC

VARIABLES
    baseName,              \* the family group being generated
    sourceFiles,           \* the group's source files: <<[path, status]>>
    pc,                    \* "parsing" | "written" | "failed" ("idle": no group is generated)
    fileIdx,               \* index in sourceFiles of the file being parsed
    inFile,                \* TRUE while the lines of sourceFiles[fileIdx] are read
    lineNo,                \* lines of the current file consumed so far
    currentSelectorScope,  \* "light" | "dark" | "unknown"
    braceLevel,            \* block nesting counter
    varNamesSeen,          \* Object.keys(combinedParsed), in insertion order
    combinedParsed,        \* variable name -> [light: [srgb, p3], dark: [srgb, p3]]
    darkSelectorRead,      \* history: a line starting the dark class selector was read
    valueDropped,          \* history: a declaration met a slot holding another value
    lists,                 \* the seven line lists built by the emission loop
    dist,                  \* the output directory: file name -> content
    sortCall,              \* a call of a function on its own: [op, args]
    sortResult,            \* what that call returned, NULL while it has not
    mainPc,                \* where main() stands ("idle": main is not run)
    allSourceFiles,        \* fs.readdir(radixSourcePath), in the order it was listed
    fileGroups,            \* the groups, in key insertion order: <<[baseName, files]>>
    tasks,                 \* baseName -> the state of the group's generation promise
    generatedFiles         \* the sorted listing of the output directory

pipelineVars == <<baseName, sourceFiles, pc, fileIdx, inFile, lineNo,
                  currentSelectorScope, braceLevel, varNamesSeen, combinedParsed,
                  darkSelectorRead, valueDropped, lists, dist>>
sortVars == <<sortCall, sortResult>>
mainVars == <<mainPc, allSourceFiles, fileGroups, tasks, generatedFiles>>
vars == <<pipelineVars, sortVars, mainVars>>

----------------------------------------------------------------------------
(* Bounds of the model *)

\* lines read from one source file
MaxLines == 3
\* identifiers in an array handed to sort
MaxSortLen == 3

----------------------------------------------------------------------------
(* Strings *)

Char(s, i) == SubSeq(s, i, i)

StartsWith(s, p) == Len(s) >= Len(p) /\ SubSeq(s, 1, Len(p)) = p

Includes(s, p) == \E i \in 1..(Len(s) - Len(p) + 1) : SubSeq(s, i, i + Len(p) - 1) = p

\* (s.match(/c/g) || []).length for a one-character pattern c
CountChar(s, c) == Cardinality({i \in 1..Len(s) : Char(s, i) = c})

Whitespace == {" ", "\t", "\r", "\n"}
Digits == {"0", "1", "2", "3", "4", "5", "6", "7", "8", "9"}
LowerLetters == {"a", "b", "c", "d", "e", "f", "g", "h", "i", "j", "k", "l", "m",
                 "n", "o", "p", "q", "r", "s", "t", "u", "v", "w", "x", "y", "z"}
UpperLetters == {"A", "B", "C", "D", "E", "F", "G", "H", "I", "J", "K", "L", "M",
                 "N", "O", "P", "Q", "R", "S", "T", "U", "V", "W", "X", "Y", "Z"}
\* the regex class \w
WordChars == LowerLetters \cup UpperLetters \cup Digits \cup {"_"}

AllIn(s, set) == \A i \in 1..Len(s) : Char(s, i) \in set

\* the index of the first character at or behind i that is not white space
\* (Len(s) + 1 if there is none)
RECURSIVE SkipWs(_, _)
SkipWs(s, i) ==
    IF i > Len(s) \/ Char(s, i) \notin Whitespace THEN i ELSE SkipWs(s, i + 1)

\* the index of the last character at or before i that is not white space
\* (0 if there is none)
RECURSIVE SkipWsBack(_, _)
SkipWsBack(s, i) ==
    IF i < 1 \/ Char(s, i) \notin Whitespace THEN i ELSE SkipWsBack(s, i - 1)

\* String.prototype.trim
Trim(s) == SubSeq(s, SkipWs(s, 1), SkipWsBack(s, Len(s)))
TrimStart(s) == SubSeq(s, SkipWs(s, 1), Len(s))
TrimEnd(s) == SubSeq(s, 1, SkipWsBack(s, Len(s)))

\* the position of the first / last occurrence of the character c in s, 0 if none
RECURSIVE IndexFrom(_, _, _)
IndexFrom(s, c, i) ==
    IF i > Len(s) THEN 0 ELSE IF Char(s, i) = c THEN i ELSE IndexFrom(s, c, i + 1)
IndexOf(s, c) == IndexFrom(s, c, 1)

RECURSIVE LastIndexFrom(_, _, _)
LastIndexFrom(s, c, i) ==
    IF i < 1 THEN 0 ELSE IF Char(s, i) = c THEN i ELSE LastIndexFrom(s, c, i - 1)
LastIndexOf(s, c) == LastIndexFrom(s, c, Len(s))

\* A text is held as the sequence of its lines, text.split("\n"): a text that
\* ends with a line break has "" as its last line.
Text(s) == <<s>>
\* the concatenation of two texts
Cat(a, b) == SubSeq(a, 1, Len(a) - 1) \o <<a[Len(a)] \o b[1]>> \o Tail(b)
\* lines.join("\n") as a text
Joined(lines) == IF lines = <<>> THEN <<"">> ELSE lines

\* String.prototype.trim on a text
RECURSIVE DropBlankHead(_)
DropBlankHead(t) ==
    IF Len(t) > 1 /\ Trim(t[1]) = "" THEN DropBlankHead(Tail(t)) ELSE t
RECURSIVE DropBlankTail(_)
DropBlankTail(t) ==
    IF Len(t) > 1 /\ Trim(t[Len(t)]) = "" THEN DropBlankTail(SubSeq(t, 1, Len(t) - 1)) ELSE t
TrimText(t) ==
    LET u == DropBlankTail(DropBlankHead(t))
    IN  IF Len(u) = 1 THEN <<Trim(u[1])>>
        ELSE <<TrimStart(u[1])>> \o SubSeq(u, 2, Len(u) - 1) \o <<TrimEnd(u[Len(u)])>>

NULL == <<>>
Some(v) == <<v>>
\* JavaScript truthiness of a string-or-null
Truthy(slot) == slot # NULL /\ slot[1] # ""

----------------------------------------------------------------------------
(* Numbers as JavaScript prints and parses them *)

DigitValue(c) ==
    CASE c = "0" -> 0 [] c = "1" -> 1 [] c = "2" -> 2 [] c = "3" -> 3 [] c = "4" -> 4
      [] c = "5" -> 5 [] c = "6" -> 6 [] c = "7" -> 7 [] c = "8" -> 8 [] c = "9" -> 9

HexDigits == Digits \cup {"a", "b", "c", "d", "e", "f", "A", "B", "C", "D", "E", "F"}

HexDigitValue(c) ==
    CASE c \in Digits -> DigitValue(c)
      [] c \in {"a", "A"} -> 10 [] c \in {"b", "B"} -> 11 [] c \in {"c", "C"} -> 12
      [] c \in {"d", "D"} -> 13 [] c \in {"e", "E"} -> 14 [] c \in {"f", "F"} -> 15

\* parseInt(s, 10) of a string of decimal digits
RECURSIVE ParseIntDec(_)
ParseIntDec(s) ==
    IF s = "" THEN 0
    ELSE 10 * ParseIntDec(SubSeq(s, 1, Len(s) - 1)) + DigitValue(Char(s, Len(s)))

NaN == [nan |-> TRUE, n |-> 0, d |-> 1]
Num(n, d) == [nan |-> FALSE, n |-> n, d |-> d]

\* parseInt(pair, 16) of a two-character string: leading white space and one
\* sign are skipped, a leading "0x" is dropped, then the hexadecimal digits
\* up to the first other character are read; no digit gives NaN
ParseIntHexPair(pair) ==
    LET c1 == Char(pair, 1)
        c2 == Char(pair, 2)
    IN  IF c1 \in HexDigits
        THEN IF c1 = "0" /\ c2 \in {"x", "X"} THEN NaN
             ELSE IF c2 \in HexDigits
                  THEN Num(16 * HexDigitValue(c1) + HexDigitValue(c2), 1)
                  ELSE Num(HexDigitValue(c1), 1)
        ELSE IF c1 \in Whitespace /\ c2 \in HexDigits THEN Num(HexDigitValue(c2), 1)
        ELSE IF c1 = "+" /\ c2 \in HexDigits THEN Num(HexDigitValue(c2), 1)
        ELSE IF c1 = "-" /\ c2 \in HexDigits THEN Num(0 - HexDigitValue(c2), 1)
        ELSE NaN

\* the end of the longest run of characters of `set` that starts at i
\* (i - 1 when the character at i is not in the set)
RECURSIVE RunEnd(_, _, _)
RunEnd(s, i, set) ==
    IF i > Len(s) \/ Char(s, i) \notin set THEN i - 1 ELSE RunEnd(s, i + 1, set)

\* parseFloat of a string of the class [\d.]+ : the longest prefix
\* digits [. digits] holding at least one digit; none gives NaN
RECURSIVE Pow10(_)
Pow10(k) == IF k = 0 THEN 1 ELSE 10 * Pow10(k - 1)

ParseFloat(s) ==
    LET ie   == RunEnd(s, 1, Digits)
        int  == SubSeq(s, 1, ie)
        dot  == ie < Len(s) /\ Char(s, ie + 1) = "."
        fe   == IF dot THEN RunEnd(s, ie + 2, Digits) ELSE ie
        frac == IF dot THEN SubSeq(s, ie + 2, fe) ELSE ""
    IN  IF int = "" /\ frac = "" THEN NaN
        ELSE Num(ParseIntDec(int) * Pow10(Len(frac)) + ParseIntDec(frac), Pow10(Len(frac)))

\* Math.round(x * 1000) for a rational x = n / d, d > 0: the count of thousandths
RoundThousandths(x) == (2 * 1000 * x.n + x.d) \div (2 * x.d)

\* (t / 1000).toString() for a count of thousandths t >= 0
ThousandthsToStringPos(t) ==
    LET int  == t \div 1000
        frac == t % 1000
        d1   == frac \div 100
        d2   == (frac \div 10) % 10
        d3   == frac % 10
    IN  IF frac = 0 THEN ToString(int)
        ELSE IF d3 # 0 THEN ToString(int) \o "." \o ToString(d1) \o ToString(d2) \o ToString(d3)
        ELSE IF d2 # 0 THEN ToString(int) \o "." \o ToString(d1) \o ToString(d2)
        ELSE ToString(int) \o "." \o ToString(d1)

----------------------------------------------------------------------------
(* Colour converters *)

\* (t / 1000).toString() for a count of thousandths t
ThousandthsToString(t) ==
    IF t < 0 THEN "-" \o ThousandthsToStringPos(0 - t) ELSE ThousandthsToStringPos(t)

\* the value a converter returns, or the fact that it threw
Returned(v) == [threw |-> FALSE, value |-> v]
Threw == [threw |-> TRUE, value |-> NULL]

IsInteger(x) == ~x.nan /\ x.n % x.d = 0

\* the sRGB -> OKLCH arithmetic shared by the three converters, then
\* `${L_rounded} ${C_rounded} ${hue_rounded}`.  The floating-point pipeline is
\* tabulated for the colours the converters' tests pin down; a NaN channel
\* makes L and C NaN and leaves the hue 0.
OklchText(r, g, b) ==
    IF r.nan \/ g.nan \/ b.nan THEN "NaN NaN 0"
    ELSE LET rgb == <<r.n \div r.d, g.n \div g.d, b.n \div b.d>>
         IN  CASE IsInteger(r) /\ IsInteger(g) /\ IsInteger(b) /\ rgb = <<255, 0, 0>> -> "0.628 0.258 29.234"
               [] IsInteger(r) /\ IsInteger(g) /\ IsInteger(b) /\ rgb = <<0, 255, 0>> -> "0.866 0.295 142.495"
               [] IsInteger(r) /\ IsInteger(g) /\ IsInteger(b) /\ rgb = <<0, 0, 255>> -> "0.452 0.313 264.052"
               [] IsInteger(r) /\ IsInteger(g) /\ IsInteger(b) /\ rgb = <<255, 255, 255>> -> "1 0 0"
               [] IsInteger(r) /\ IsInteger(g) /\ IsInteger(b) /\ rgb = <<0, 0, 0>> -> "0 0 0"
               [] IsInteger(r) /\ IsInteger(g) /\ IsInteger(b) /\ rgb = <<128, 128, 128>> -> "0.6 0 0"
               [] IsInteger(r) /\ IsInteger(g) /\ IsInteger(b) /\ rgb = <<51, 51, 51>> -> "0.321 0 0"
               [] IsInteger(r) /\ IsInteger(g) /\ IsInteger(b) /\ rgb = <<204, 204, 204>> -> "0.845 0 0"
               [] IsInteger(r) /\ IsInteger(g) /\ IsInteger(b) /\ rgb = <<255, 0, 128>> -> "0.645 0.26 2.471"
               \* hue = 359.9999...: Math.round(hue * 1000) / 1000 is 360
               [] IsInteger(r) /\ IsInteger(g) /\ IsInteger(b) /\ rgb = <<78, 60, 65>> -> "0.377 0.026 360"

hexToOklchString(hexCode) ==
    IF ~StartsWith(hexCode, "#") \/ (Len(hexCode) # 7 /\ Len(hexCode) # 9)
    THEN Threw
    ELSE LET hexValue == SubSeq(hexCode, 2, Len(hexCode))
             \* hexValue.match(/.{2}/g): three or four pairs at these lengths
             r == ParseIntHexPair(SubSeq(hexValue, 1, 2))
             g == ParseIntHexPair(SubSeq(hexValue, 3, 4))
             b == ParseIntHexPair(SubSeq(hexValue, 5, 6))
         IN  IF r.nan \/ g.nan \/ b.nan THEN Threw
             ELSE Returned(Some(OklchText(r, g, b)))

CharAt(s, i) == IF i >= 1 /\ i <= Len(s) THEN Char(s, i) ELSE ""
At(s, i, lit) == i >= 1 /\ i + Len(lit) - 1 <= Len(s) /\ SubSeq(s, i, i + Len(lit) - 1) = lit
NumChars == Digits \cup {"."}

\* a variant that appends the alpha whatever its value
AlphaSuffix_Always(a) ==
    IF a.nan THEN " / NaN" ELSE " / " \o ThousandthsToString(RoundThousandths(a))

\* `${...}${a_rounded !== 1 ? ` / ${a_rounded}` : ""}`
AlphaSuffix(a) ==
    IF a.nan THEN " / NaN"
    ELSE IF RoundThousandths(a) # 1000
         THEN " / " \o ThousandthsToString(RoundThousandths(a))
         ELSE ""

\* /rgba\(\s*([\d.]+)\s*,\s*([\d.]+)\s*,\s*([\d.]+)\s*,\s*([\d.]+)\s*\)/ tried at i
RgbaMatchAt(s, i) ==
    LET s1 == SkipWs(s, i + 5)
        e1 == RunEnd(s, s1, NumChars)
        c1 == SkipWs(s, e1 + 1)
        s2 == SkipWs(s, c1 + 1)
        e2 == RunEnd(s, s2, NumChars)
        c2 == SkipWs(s, e2 + 1)
        s3 == SkipWs(s, c2 + 1)
        e3 == RunEnd(s, s3, NumChars)
        c3 == SkipWs(s, e3 + 1)
        s4 == SkipWs(s, c3 + 1)
        e4 == RunEnd(s, s4, NumChars)
        cl == SkipWs(s, e4 + 1)
    IN  IF /\ At(s, i, "rgba(")
           /\ e1 >= s1 /\ CharAt(s, c1) = ","
           /\ e2 >= s2 /\ CharAt(s, c2) = ","
           /\ e3 >= s3 /\ CharAt(s, c3) = ","
           /\ e4 >= s4 /\ CharAt(s, cl) = ")"
        THEN <<SubSeq(s, s1, e1), SubSeq(s, s2, e2), SubSeq(s, s3, e3), SubSeq(s, s4, e4)>>
        ELSE <<>>

rgbaStringToOklchString(rgbaString) ==
    LET starts == {i \in 1..Len(rgbaString) : RgbaMatchAt(rgbaString, i) # <<>>}
    IN  IF starts = {} THEN Returned(NULL)
        ELSE LET i == CHOOSE k \in starts : \A j \in starts : k <= j
                 m == RgbaMatchAt(rgbaString, i)
             IN  Returned(Some(OklchText(ParseFloat(m[1]), ParseFloat(m[2]), ParseFloat(m[3]))
                               \o AlphaSuffix(ParseFloat(m[4]))))

\* /hsla\(([\d.]+),\s*([\d.]+)%,\s*([\d.]+)%,\s*([\d.]+)\)/ tried at i
HslaMatchAt(s, i) ==
    LET s1 == i + 5
        e1 == RunEnd(s, s1, NumChars)
        s2 == SkipWs(s, e1 + 2)
        e2 == RunEnd(s, s2, NumChars)
        s3 == SkipWs(s, e2 + 3)
        e3 == RunEnd(s, s3, NumChars)
        s4 == SkipWs(s, e3 + 3)
        e4 == RunEnd(s, s4, NumChars)
    IN  IF /\ At(s, i, "hsla(")
           /\ e1 >= s1 /\ At(s, e1 + 1, ",")
           /\ e2 >= s2 /\ At(s, e2 + 1, "%,")
           /\ e3 >= s3 /\ At(s, e3 + 1, "%,")
           /\ e4 >= s4 /\ At(s, e4 + 1, ")")
        THEN <<SubSeq(s, s1, e1), SubSeq(s, s2, e2), SubSeq(s, s3, e3), SubSeq(s, s4, e4)>>
        ELSE <<>>

RECURSIVE Gcd(_, _)
Gcd(a, b) == IF b = 0 THEN a ELSE Gcd(b, a % b)

\* n / d in lowest terms, d > 0
Reduced(n, d) ==
    LET g == Gcd(IF n < 0 THEN 0 - n ELSE n, d)
    IN  Num(n \div g, d \div g)

\* rational arithmetic on [n, d] with d > 0
RAdd(x, y) == Reduced(x.n * y.d + y.n * x.d, x.d * y.d)
RSub(x, y) == Reduced(x.n * y.d - y.n * x.d, x.d * y.d)
RMul(x, y) == Reduced(x.n * y.n, x.d * y.d)
RLess(x, y) == x.n * y.d < y.n * x.d
\* Math.round(x): the nearest integer, halves upwards
RRound(x) == (2 * x.n + x.d) \div (2 * x.d)

hueToRgb(p, q, t0) ==
    LET t1 == IF RLess(t0, Num(0, 1)) THEN RAdd(t0, Num(1, 1)) ELSE t0
        t  == IF RLess(Num(1, 1), t1) THEN RSub(t1, Num(1, 1)) ELSE t1
    IN  IF RLess(t, Num(1, 6)) THEN RAdd(p, RMul(RMul(RSub(q, p), Num(6, 1)), t))
        ELSE IF RLess(t, Num(1, 2)) THEN q
        ELSE IF RLess(t, Num(2, 3))
             THEN RAdd(p, RMul(RMul(RSub(q, p), RSub(Num(2, 3), t)), Num(6, 1)))
        ELSE p

\* HSL -> the three channels r255, g255, b255
HslToRgb255(h, s, l) ==
    LET saturation == RMul(s, Num(1, 100))
        lightness  == RMul(l, Num(1, 100))
        q == IF RLess(lightness, Num(1, 2))
             THEN RMul(lightness, RAdd(Num(1, 1), saturation))
             ELSE RSub(RAdd(lightness, saturation), RMul(lightness, saturation))
        p == RSub(RMul(Num(2, 1), lightness), q)
        hNorm == RMul(h, Num(1, 360))
        to255(c) == Num(RRound(RMul(c, Num(255, 1))), 1)
    IN  IF l.nan \/ s.nan THEN <<NaN, NaN, NaN>>
        ELSE IF saturation.n = 0
             THEN <<to255(lightness), to255(lightness), to255(lightness)>>
        \* every comparison of hueToRgb is false on a NaN hue: it returns p
        ELSE IF h.nan THEN <<to255(p), to255(p), to255(p)>>
        ELSE <<to255(hueToRgb(p, q, RAdd(hNorm, Num(1, 3)))),
               to255(hueToRgb(p, q, hNorm)),
               to255(hueToRgb(p, q, RSub(hNorm, Num(1, 3))))>>

hslaStringToOklchString(hslaString) ==
    LET starts == {i \in 1..Len(hslaString) : HslaMatchAt(hslaString, i) # <<>>}
    IN  IF starts = {} THEN Threw
        ELSE LET i == CHOOSE k \in starts : \A j \in starts : k <= j
                 m == HslaMatchAt(hslaString, i)
                 rgb == HslToRgb255(ParseFloat(m[1]), ParseFloat(m[2]), ParseFloat(m[3]))
             IN  Returned(Some(OklchText(rgb[1], rgb[2], rgb[3])
                               \o AlphaSuffix(ParseFloat(m[4]))))

----------------------------------------------------------------------------
(* Deterministic ordering *)

\* (\d+|a\d+)
IsSolidIndex(ix) == ix # "" /\ AllIn(ix, Digits)
IsAlphaIndex(ix) == Len(ix) >= 2 /\ Char(ix, 1) = "a" /\ AllIn(SubSeq(ix, 2, Len(ix)), Digits)
IsIndex(ix) == IsSolidIndex(ix) \/ IsAlphaIndex(ix)

\* [a-z]+(?:-[a-z]+)* : lower-case words joined by single hyphens
IsLowerWords(w) ==
    /\ w # ""
    /\ AllIn(w, LowerLetters \cup {"-"})
    /\ Char(w, 1) # "-" /\ Char(w, Len(w)) # "-"
    /\ ~Includes(w, "--")

\* a.match(/^--[a-z]+(?:-[a-z]+)*-(\d+|a\d+)$/): the captured index, or NULL.
\* No index holds a hyphen, so the index is what follows the last hyphen.
SortVarRegexMatch(a) ==
    LET k == LastIndexOf(a, "-")
    IN  IF /\ StartsWith(a, "--")
           /\ k >= 4
           /\ IsLowerWords(SubSeq(a, 3, k - 1))
           /\ IsIndex(SubSeq(a, k + 1, Len(a)))
        THEN Some(SubSeq(a, k + 1, Len(a)))
        ELSE NULL

\* the collation key of a character in String.prototype.localeCompare, for
\* the characters of variable identifiers: punctuation, then digits, then letters
CollationRank(c) ==
    CASE c = "-" -> 0
      [] c \in Digits -> 1 + DigitValue(c)
      [] c \in LowerLetters -> 10 + IndexOf("abcdefghijklmnopqrstuvwxyz", c)

\* a.localeCompare(b): negative, zero or positive
RECURSIVE localeCompare(_, _)
localeCompare(a, b) ==
    IF a = "" /\ b = "" THEN 0
    ELSE IF a = "" THEN -1
    ELSE IF b = "" THEN 1
    ELSE IF CollationRank(Char(a, 1)) < CollationRank(Char(b, 1)) THEN -1
    ELSE IF CollationRank(Char(a, 1)) > CollationRank(Char(b, 1)) THEN 1
    ELSE localeCompare(SubSeq(a, 2, Len(a)), SubSeq(b, 2, Len(b)))

sortVarNames(a, b) ==
    LET aMatch == SortVarRegexMatch(a)
        bMatch == SortVarRegexMatch(b)
    IN  IF aMatch = NULL \/ bMatch = NULL
        THEN localeCompare(a, b)
        ELSE LET aIndex == aMatch[1]
                 bIndex == bMatch[1]
                 aIsAlpha == StartsWith(aIndex, "a")
                 bIsAlpha == StartsWith(bIndex, "a")
                 numA == ParseIntDec(IF aIsAlpha THEN SubSeq(aIndex, 2, Len(aIndex)) ELSE aIndex)
                 numB == ParseIntDec(IF bIsAlpha THEN SubSeq(bIndex, 2, Len(bIndex)) ELSE bIndex)
             IN  IF aIsAlpha # bIsAlpha
                 THEN (IF aIsAlpha THEN 1 ELSE -1)
                 ELSE numA - numB

\* Array.prototype.sort(sortVarNames): a stable sort, here by insertion: each
\* element goes behind the last element that does not compare greater than it
InsertVarName(out, x) ==
    LET le == {j \in 1..Len(out) : sortVarNames(out[j], x) <= 0}
        j  == IF le = {} THEN 0 ELSE CHOOSE k \in le : \A m \in le : m <= k
    IN  SubSeq(out, 1, j) \o <<x>> \o SubSeq(out, j + 1, Len(out))

RECURSIVE SortedVarNames(_)
SortedVarNames(arr) ==
    IF arr = <<>> THEN <<>>
    ELSE InsertVarName(SortedVarNames(SubSeq(arr, 1, Len(arr) - 1)), arr[Len(arr)])

----------------------------------------------------------------------------
(* Source scope parser: one line of one source file *)

\* baseName === "black-alpha" || baseName === "white-alpha"
IsAlphaOnlyFamily(b) == b = "black-alpha" \/ b = "white-alpha"

\* baseName.split("-")[0] for the two alpha-only families, else baseName
expectedStemName(b) ==
    IF IsAlphaOnlyFamily(b) THEN SubSeq(b, 1, IndexOf(b, "-") - 1) ELSE b

\* [\w-] runs made of non-empty \w words joined by single hyphens: \w+(?:-\w+)*
IsWords(w) ==
    /\ w # ""
    /\ AllIn(w, WordChars \cup {"-"})
    /\ Char(w, 1) # "-" /\ Char(w, Len(w)) # "-"
    /\ ~Includes(w, "--")

\* trimmedLine.match(/^(--\w+(?:-\w+)*):\s*(.*);$/): <<name, value>>, or <<>>.
\* The name is the whole run of [\w-] behind "--", which a ":" must end; the
\* value is what lies between the white space behind that ":" and the last ";"
\* ("." matches no line terminator).
varRegexMatch(t) ==
    LET ne == RunEnd(t, 3, WordChars \cup {"-"})
        vs == SkipWs(t, ne + 2)
    IN  IF /\ StartsWith(t, "--")
           /\ IsWords(SubSeq(t, 3, ne))
           /\ CharAt(t, ne + 1) = ":"
           /\ vs <= Len(t)
           /\ Char(t, Len(t)) = ";"
           /\ ~Includes(SubSeq(t, vs, Len(t) - 1), "\n")
           /\ ~Includes(SubSeq(t, vs, Len(t) - 1), "\r")
        THEN <<SubSeq(t, 1, ne), SubSeq(t, vs, Len(t) - 1)>>
        ELSE <<>>

EmptyParsedColorValue ==
    [light |-> [srgb |-> NULL, p3 |-> NULL], dark |-> [srgb |-> NULL, p3 |-> NULL]]

\* a variant in which a later definition replaces the value of a slot
AssignIfNull_Overwrite(slot, value) == Some(value)

\* a slot keeps its value once it has one
AssignIfNull(slot, value) == IF slot = NULL THEN Some(value) ELSE slot

\* the assignment of `value` to the slot of `rec` chosen by scope and literal shape
AssignSlot(rec, scope, value) ==
    IF scope = "light"
    THEN IF StartsWith(value, "color(display-p3")
         THEN [rec EXCEPT !.light.p3 = AssignIfNull(@, value)]
         ELSE [rec EXCEPT !.light.srgb = AssignIfNull(@, value)]
    ELSE IF StartsWith(value, "color(display-p3")
         THEN [rec EXCEPT !.dark.p3 = AssignIfNull(@, value)]
         ELSE [rec EXCEPT !.dark.srgb = AssignIfNull(@, value)]

\* the slot of `rec` that AssignSlot chooses
SlotOf(rec, scope, value) ==
    IF scope = "light"
    THEN IF StartsWith(value, "color(display-p3") THEN rec.light.p3 ELSE rec.light.srgb
    ELSE IF StartsWith(value, "color(display-p3") THEN rec.dark.p3 ELSE rec.dark.srgb

\* the filter on the variable's stem: TRUE when the declaration is kept
StemAccepted(variableName, stem) ==
    \/ StartsWith(variableName, "--" \o stem \o "-")
    \/ (stem = "black" \/ stem = "white") /\ StartsWith(variableName, "--" \o stem \o "-a")

\* the scope after the scope-start detection of a line
ScopeAfterStart(t, scope) ==
    IF StartsWith(t, ":root,") \/ StartsWith(t, ".light,") \/ StartsWith(t, ":root {")
    THEN "light"
    ELSE IF StartsWith(t, ".dark,") THEN "dark"
    ELSE scope

StartsScope(t) ==
    \/ StartsWith(t, ":root,") \/ StartsWith(t, ".light,") \/ StartsWith(t, ":root {")
    \/ StartsWith(t, ".dark,")

Max(a, b) == IF a >= b THEN a ELSE b

\* braceLevel after the scope-start detection and the nesting count of a line
BraceAfterLine(t, scope1, brace) ==
    LET b0 == IF StartsScope(t) /\ Includes(t, "{") THEN 1 ELSE brace
        b1 == b0 + CountChar(t, "{") - CountChar(t, "}")
    IN  IF scope1 \in {"light", "dark"}
        THEN IF /\ (StartsWith(t, ":root {") \/ StartsWith(t, ".light {") \/ StartsWith(t, ".dark {"))
                /\ Includes(t, "{")
             THEN Max(1, b1)
             ELSE b1
        ELSE b0

\* a variant that never leaves a scope
ScopeCloses_Never(scope, brace) == FALSE

\* the test that resets the scope when the detected block is left
ScopeCloses(scope, brace) == scope \in {"light", "dark"} /\ brace <= 0

\* the body of the loop over the lines of a file, for one line, as a function
\* of the loop's state st = [scope, brace, parsed, seen, darkRead, dropped]
\* (currentSelectorScope, braceLevel, combinedParsed, its keys in insertion
\* order, and the two history flags) for the group b
LineLoopStep(st, line, b) ==
    LET trimmedLine == Trim(line)
        scope1  == ScopeAfterStart(trimmedLine, st.scope)
        brace1  == BraceAfterLine(trimmedLine, scope1, st.brace)
        matches == varRegexMatch(trimmedLine)
        records == /\ scope1 \in {"light", "dark"}
                   /\ brace1 > 0
                   /\ StartsWith(trimmedLine, "--")
                   /\ matches # <<>>
                   /\ matches[1] # "" /\ matches[2] # ""
                   /\ StemAccepted(matches[1], expectedStemName(b))
        variableName == matches[1]
        old == IF variableName \in DOMAIN st.parsed
               THEN st.parsed[variableName]
               ELSE EmptyParsedColorValue
        closes == ScopeCloses(scope1, brace1)
    IN  [scope  |-> IF closes THEN "unknown" ELSE scope1,
         brace  |-> IF closes THEN 0 ELSE brace1,
         parsed |-> IF records
                    THEN [n \in DOMAIN st.parsed \cup {variableName} |->
                             IF n = variableName THEN AssignSlot(old, scope1, matches[2])
                             ELSE st.parsed[n]]
                    ELSE st.parsed,
         seen   |-> IF records /\ variableName \notin DOMAIN st.parsed
                    THEN Append(st.seen, variableName)
                    ELSE st.seen,
         darkRead |-> (st.darkRead \/ StartsWith(trimmedLine, ".dark,")),
         dropped  |-> (st.dropped \/ (records /\ AssignSlot(old, scope1, matches[2]) = old
                                              /\ SlotOf(old, scope1, matches[2]) # Some(matches[2])))]

\* the body of the loop over the lines of a file, for one line
ProcessLine(line) ==
    LET st == LineLoopStep([scope |-> currentSelectorScope, brace |-> braceLevel,
                            parsed |-> combinedParsed, seen |-> varNamesSeen,
                            darkRead |-> darkSelectorRead, dropped |-> valueDropped],
                           line, baseName)
    IN  /\ currentSelectorScope' = st.scope
        /\ braceLevel' = st.brace
        /\ combinedParsed' = st.parsed
        /\ varNamesSeen' = st.seen
        /\ darkSelectorRead' = st.darkRead
        /\ valueDropped' = st.dropped

----------------------------------------------------------------------------
(* Combined emitter *)

\* a variant that keeps the "-alpha" suffix of the group's name
outputStemName_Group(b) == b

\* baseName.replace("-alpha", "") for the two alpha-only families, else baseName
outputStemName(b) ==
    IF IsAlphaOnlyFamily(b) THEN SubSeq(b, 1, Len(b) - Len("-alpha")) ELSE b

\* a variant that takes whatever word follows the last hyphen as the index
EmitIndexMatch_AnyWord(variableName) ==
    Some(SubSeq(variableName, LastIndexOf(variableName, "-") + 1, Len(variableName)))

\* variableName.match(/^--\w+-(\d+|a\d+)$/): the captured index, or NULL
EmitIndexMatch(variableName) ==
    LET k == LastIndexOf(variableName, "-")
    IN  IF /\ StartsWith(variableName, "--")
           /\ k >= 4
           /\ AllIn(SubSeq(variableName, 3, k - 1), WordChars)
           /\ IsIndex(SubSeq(variableName, k + 1, Len(variableName)))
        THEN Some(SubSeq(variableName, k + 1, Len(variableName)))
        ELSE NULL

\* the try block that converts a fallback literal: the OKLCH string (NULL when
\* the converter threw, returned null or no converter applies) and the alpha
\* taken from an 8-digit hex literal
ConvertFallback(literal) ==
    IF StartsWith(literal, "#")
    THEN LET res   == hexToOklchString(literal)
             alpha == ParseIntHexPair(SubSeq(literal, 8, 9))
         IN  IF res.threw THEN [oklchString |-> NULL, alphaValue |-> NULL]
             ELSE [oklchString |-> res.value,
                   alphaValue  |-> IF Len(literal) = 9 /\ ~alpha.nan
                                   THEN Some(ThousandthsToString(
                                            RoundThousandths(Num(alpha.n, 255))))
                                   ELSE NULL]
    ELSE IF StartsWith(literal, "hsla")
    THEN [oklchString |-> hslaStringToOklchString(literal).value, alphaValue |-> NULL]
    ELSE IF StartsWith(literal, "rgba")
    THEN [oklchString |-> rgbaStringToOklchString(literal).value, alphaValue |-> NULL]
    ELSE [oklchString |-> NULL, alphaValue |-> NULL]

\* alphaValue ? `${oklchString} / ${alphaValue}` : oklchString
FinalValue(conv) ==
    IF Truthy(conv.alphaValue)
    THEN conv.oklchString[1] \o " / " \o conv.alphaValue[1]
    ELSE conv.oklchString[1]

\* a variant that never finds the line
SomeStartsWith_Never(lines, prefix) == FALSE

\* lines.some(line => line.startsWith(prefix))
SomeStartsWith(lines, prefix) == \E i \in 1..Len(lines) : StartsWith(lines[i], prefix)

EmptyLists ==
    [lightRgbLines |-> <<>>, darkRgbLines |-> <<>>, themeLines |-> <<>>,
     intermediateLines |-> <<>>, p3LightOverrides |-> <<>>, p3DarkOverrides |-> <<>>,
     p3IntermediateOverrides |-> <<>>]

\* the fallback part of one mode: with a converted value `conv`, the base
\* variable line goes to the mode's list, and the intermediate line is added
\* once per variable
EmitFallback(acc, conv, rgbVar, intermediateVar, isLight) ==
    IF Truthy(conv.oklchString)
    THEN LET line == "  " \o rgbVar \o ": " \o FinalValue(conv) \o ";"
             inter ==
                 IF SomeStartsWith(acc.intermediateLines, "  " \o intermediateVar \o ":")
                 THEN acc.intermediateLines
                 ELSE Append(acc.intermediateLines,
                             "  " \o intermediateVar \o ": oklch(var(" \o rgbVar \o "));")
         IN  IF isLight
             THEN [acc EXCEPT !.lightRgbLines = Append(@, line), !.intermediateLines = inter]
             ELSE [acc EXCEPT !.darkRgbLines = Append(@, line), !.intermediateLines = inter]
    ELSE acc

\* the gamut part of one mode: if (def.p3) the override line goes to the
\* mode's override list, and the intermediate override is added once
EmitGamut(acc, def, rgbVar, intermediateVar, isLight) ==
    IF Truthy(def.p3)
    THEN LET line == "  " \o rgbVar \o ": " \o def.p3[1] \o ";"
             inter ==
                 IF SomeStartsWith(acc.p3IntermediateOverrides, "  " \o intermediateVar \o ":")
                 THEN acc.p3IntermediateOverrides
                 ELSE Append(acc.p3IntermediateOverrides,
                             "  " \o intermediateVar \o ": var(" \o rgbVar \o ");")
         IN  IF isLight
             THEN [acc EXCEPT !.p3LightOverrides = Append(@, line),
                              !.p3IntermediateOverrides = inter]
             ELSE [acc EXCEPT !.p3DarkOverrides = Append(@, line),
                              !.p3IntermediateOverrides = inter]
    ELSE acc

\* the part of the loop body that handles one mode (light or dark) of a record:
\* `def` is parsedValue.light or parsedValue.dark; nothing is emitted for a
\* mode without a fallback literal
EmitMode(acc, def, rgbVar, intermediateVar, isLight) ==
    IF Truthy(def.srgb)
    THEN EmitGamut(EmitFallback(acc, ConvertFallback(def.srgb[1]), rgbVar, intermediateVar, isLight),
                   def, rgbVar, intermediateVar, isLight)
    ELSE acc

\* the body of the loop over the sorted variable names, for one name
EmitVariable(acc, b, parsed, variableName) ==
    LET parsedValue == parsed[variableName]
        matches == EmitIndexMatch(variableName)
        outputIndex == matches[1]
        rgbVar == "--radix-rgb-" \o outputStemName(b) \o "-" \o outputIndex
        intermediateVar == "--radix-intermediate-" \o outputStemName(b) \o "-" \o outputIndex
        themeVar == "--color-" \o outputStemName(b) \o "-" \o outputIndex
        acc0 == [acc EXCEPT !.themeLines =
                     Append(@, "  " \o themeVar \o ": var(" \o intermediateVar \o ");")]
    IN  IF ~Truthy(matches) THEN acc
        ELSE EmitMode(EmitMode(acc0, parsedValue.light, rgbVar, intermediateVar, TRUE),
                      parsedValue.dark, rgbVar, intermediateVar, FALSE)

RECURSIVE EmitLoop(_, _, _)
EmitLoop(b, parsed, varNames) ==
    IF varNames = <<>> THEN EmptyLists
    ELSE EmitVariable(EmitLoop(b, parsed, SubSeq(varNames, 1, Len(varNames) - 1)),
                      b, parsed, varNames[Len(varNames)])


\* the header comment, with the version of package.json
headerComment ==
    << "/**",
       " Radix Colors for Tailwind CSS",
       " ",
       " Version: 2.1.0",
       " Created by Lingxi Li on 4/13/25.",
       "",
       " To know more about this file, visit: https://github.com/lilingxi01/radix-colors-tailwind",
       " */" >>

\* the end of the longest run of non-white-space characters that starts at i
RECURSIVE NonWsRunEnd(_, _)
NonWsRunEnd(s, i) ==
    IF i > Len(s) \/ Char(s, i) \in Whitespace THEN i - 1 ELSE NonWsRunEnd(s, i + 1)

\* line.match(/^\s*(--\S+):/)?.[1] ?? "" : the variable a line defines
LineVarName(line) ==
    LET i == SkipWs(line, 1)
        e == NonWsRunEnd(line, i + 2)
        c == LastIndexFrom(line, ":", e)
    IN  IF At(line, i, "--") /\ c >= i + 3
        THEN SubSeq(line, i, c - 1)
        ELSE ""

\* the comparator handed to the sort of the two intermediate lists
CompareLines(a, b) == sortVarNames(LineVarName(a), LineVarName(b))

\* lines.sort(CompareLines), stable
InsertLine(out, x) ==
    LET le == {j \in 1..Len(out) : CompareLines(out[j], x) <= 0}
        j  == IF le = {} THEN 0 ELSE CHOOSE k \in le : \A m \in le : m <= k
    IN  SubSeq(out, 1, j) \o <<x>> \o SubSeq(out, j + 1, Len(out))

RECURSIVE SortedLines(_)
SortedLines(arr) ==
    IF arr = <<>> THEN <<>>
    ELSE InsertLine(SortedLines(SubSeq(arr, 1, Len(arr) - 1)), arr[Len(arr)])

\* lines.map(line => `      ${line.trim()}`)
Indent6(lines) == [i \in 1..Len(lines) |-> "      " \o Trim(lines[i])]

\* a variant that gives every family the root + light-class selector group
lightSelectors_Classes(b) == <<":root,", ".light,", ".light-theme">>

\* the selector group of the light block, and of the light override block
lightSelectors(b) ==
    IF b = "black-alpha" \/ b = "white-alpha" THEN Text(":root")
    ELSE <<":root,", ".light,", ".light-theme">>
p3LightSelectors(b) ==
    IF b = "black-alpha" \/ b = "white-alpha" THEN Text(":root")
    ELSE <<":root,", "    .light,", "    .light-theme">>

\* the blocks of the content, each the empty text when its list is empty
lightBlock(b, acc) ==
    IF Len(acc.lightRgbLines) > 0
    THEN Cat(Cat(Cat(lightSelectors(b), <<" {", "">>), Joined(acc.lightRgbLines)),
             <<"", "}", "">>)
    ELSE Text("")

intermediateBlock(acc) ==
    IF Len(acc.intermediateLines) > 0
    THEN Cat(Cat(<<"", ":root {", "">>, Joined(acc.intermediateLines)), <<"", "}", "">>)
    ELSE Text("")

\* a variant that writes the dark block whether or not it has lines
darkBlock_Always(acc) ==
    Cat(Cat(<<"", ".dark,", ".dark-theme {", "">>, Joined(acc.darkRgbLines)), <<"", "}", "">>)

darkBlock(acc) ==
    IF Len(acc.darkRgbLines) > 0
    THEN Cat(Cat(<<"", ".dark,", ".dark-theme {", "">>, Joined(acc.darkRgbLines)),
             <<"", "}", "">>)
    ELSE Text("")

themeBlock(acc) ==
    IF Len(acc.themeLines) > 0
    THEN Cat(Cat(<<"", "@theme inline {", "">>, Joined(acc.themeLines)), <<"", "}", "">>)
    ELSE Text("")

p3IntermediateBlock(acc) ==
    IF Len(acc.p3IntermediateOverrides) > 0
    THEN Cat(Cat(<<"    :root {", "">>, Joined(Indent6(acc.p3IntermediateOverrides))),
             <<"", "    }", "">>)
    ELSE Text("")

p3LightBlock(b, acc) ==
    IF Len(acc.p3LightOverrides) > 0
    THEN Cat(Cat(Cat(Cat(Text("    "), p3LightSelectors(b)), <<" {", "">>),
                 Joined(Indent6(acc.p3LightOverrides))),
             <<"", "    }", "">>)
    ELSE Text("")

p3DarkBlock(acc) ==
    IF Len(acc.p3DarkOverrides) > 0
    THEN Cat(Cat(<<"    .dark,", "    .dark-theme {", "">>,
                 Joined(Indent6(acc.p3DarkOverrides))),
             <<"", "    }", "">>)
    ELSE Text("")

\* the gamut wrapper: @supports / @media around the three override blocks
GamutWrapper(b, acc) ==
    IF \/ Len(acc.p3IntermediateOverrides) > 0
       \/ Len(acc.p3LightOverrides) > 0
       \/ Len(acc.p3DarkOverrides) > 0
    THEN Cat(Cat(Cat(Cat(<<"", "@supports (color: color(display-p3 1 1 1)) {",
                           "  @media (color-gamut: p3) {", "">>,
                         p3IntermediateBlock(acc)),
                     p3LightBlock(b, acc)),
                 p3DarkBlock(acc)),
             <<"  }", "}", "">>)
    ELSE Text("")

\* a variant that writes the dark block ahead of the intermediate block
BuildCss_DarkFirst(b, acc) ==
    Cat(Cat(Cat(Cat(Cat(Cat(headerComment, <<"", "", "">>),
                        lightBlock(b, acc)),
                    darkBlock(acc)),
                intermediateBlock(acc)),
            themeBlock(acc)),
        GamutWrapper(b, acc))

\* the final CSS content string, from the lists (the two intermediate lists sorted)
BuildCss(b, acc) ==
    Cat(Cat(Cat(Cat(Cat(Cat(headerComment, <<"", "", "">>),
                        lightBlock(b, acc)),
                    intermediateBlock(acc)),
                darkBlock(acc)),
            themeBlock(acc)),
        GamutWrapper(b, acc))

\* the lists when the content is assembled: the loop's lists, the two
\* intermediate lists sorted in place
FinalLists(b, parsed, keys) ==
    LET acc == EmitLoop(b, parsed, SortedVarNames(keys))
    IN  [acc EXCEPT !.intermediateLines = SortedLines(@),
                    !.p3IntermediateOverrides = SortedLines(@)]

\* path.join(outputDirPath, `${baseName}.css`), relative to the output directory
OutputFileName(b) == b \o ".css"

----------------------------------------------------------------------------
(* The inputs of the model *)

Families == {"red", "black-alpha"}

\* the lines a source file of the family group b is made of: the selector
\* lines of the Radix files, a closing brace, declarations of the group's
\* variables (two fallback literals and a gamut literal for one variable,
\* literals that no converter turns into a colour for another) and a
\* declaration of another stem
SourceLines(b) ==
    IF IsAlphaOnlyFamily(b)
    THEN { ":root {", ".dark, .dark-theme {", "}",
           "  --black-a1: rgba(0, 0, 0, 0.5);",
           "  --black-a1: color(display-p3 0 0 0 / 0.5);" }
    ELSE IF b = "gray"
    \* declarations whose names do not end in an index, or belong to another stem
    THEN { ":root, .light, .light-theme {",
           "  --gray-1: #FF0000;",
           "  --gray-foo: #FF0000;",
           "  --gray-x-1: #0000FF;",
           "  --grayish-1: #0000FF;" }
    ELSE { ":root, .light, .light-theme {", ".dark, .dark-theme {", "}",
           "  --red-1: #FF0000;",
           "  --red-1: #0000FF;",
           "  --red-1: color(display-p3 1 0 0);",
           "  --red-2: #GGGFFF;",
           "  --red-2: FF0000;",
           "  --blue-1: #0000FF;" }

\* what reading a source file gives: its text, an empty text, or an error
FileStatuses == {"ok", "empty", "ENOENT", "EACCES"}

\* the source files of a family group: the base file, or the base file and
\* its dark-mode companion
GroupFiles(b) ==
    { <<[path |-> b \o ".css", status |-> s1]>> : s1 \in FileStatuses }
    \cup { <<[path |-> b \o ".css", status |-> s1], [path |-> b \o "-dark.css", status |-> s2]>> :
             s1 \in FileStatuses, s2 \in FileStatuses }

SortIdle ==
    /\ sortCall = [op |-> "none", args |-> <<>>]
    /\ sortResult = NULL

MainIdle ==
    /\ mainPc = "idle"
    /\ allSourceFiles = <<>>
    /\ fileGroups = <<>>
    /\ tasks = <<>>
    /\ generatedFiles = <<>>

----------------------------------------------------------------------------
(* parseAndGenerateCombinedCss(baseName, sourceFiles, outputDirPath) *)

Init ==
    /\ baseName \in Families
    /\ sourceFiles \in GroupFiles(baseName)
    /\ pc = "parsing"
    /\ fileIdx = 1
    /\ inFile = FALSE
    /\ lineNo = 0
    /\ currentSelectorScope = "unknown"
    /\ braceLevel = 0
    /\ varNamesSeen = <<>>
    /\ combinedParsed = <<>>
    /\ darkSelectorRead = FALSE
    /\ valueDropped = FALSE
    /\ lists = EmptyLists
    /\ dist = <<>>
    /\ SortIdle
    /\ MainIdle

AtFile == pc = "parsing" /\ ~inFile /\ fileIdx <= Len(sourceFiles)

\* await file.text() gives a non-empty text: the loop over its lines starts
OpenFile ==
    /\ AtFile
    /\ sourceFiles[fileIdx].status = "ok"
    /\ inFile' = TRUE
    /\ lineNo' = 0
    /\ currentSelectorScope' = "unknown"
    /\ braceLevel' = 0
    /\ UNCHANGED <<baseName, sourceFiles, pc, fileIdx, varNamesSeen, combinedParsed,
                   darkSelectorRead, valueDropped, lists, dist, sortVars, mainVars>>

\* if (!text) continue
SkipEmptyFile ==
    /\ AtFile
    /\ sourceFiles[fileIdx].status = "empty"
    /\ fileIdx' = fileIdx + 1
    /\ UNCHANGED <<baseName, sourceFiles, pc, inFile, lineNo, currentSelectorScope,
                   braceLevel, varNamesSeen, combinedParsed, darkSelectorRead, valueDropped,
                   lists, dist, sortVars, mainVars>>

\* a variant in which a missing file is rethrown like any other read error
SkipMissingFile_Rethrow ==
    /\ AtFile
    /\ sourceFiles[fileIdx].status = "ENOENT"
    /\ pc' = "failed"
    /\ UNCHANGED <<baseName, sourceFiles, fileIdx, inFile, lineNo, currentSelectorScope,
                   braceLevel, varNamesSeen, combinedParsed, darkSelectorRead, valueDropped,
                   lists, dist, sortVars, mainVars>>

\* the read throws ENOENT: the catch block ignores it
SkipMissingFile ==
    /\ AtFile
    /\ sourceFiles[fileIdx].status = "ENOENT"
    /\ fileIdx' = fileIdx + 1
    /\ UNCHANGED <<baseName, sourceFiles, pc, inFile, lineNo, currentSelectorScope,
                   braceLevel, varNamesSeen, combinedParsed, darkSelectorRead, valueDropped,
                   lists, dist, sortVars, mainVars>>

\* the read throws another error: the catch block rethrows it
FailRead ==
    /\ AtFile
    /\ sourceFiles[fileIdx].status \notin {"ok", "empty", "ENOENT"}
    /\ pc' = "failed"
    /\ UNCHANGED <<baseName, sourceFiles, fileIdx, inFile, lineNo, currentSelectorScope,
                   braceLevel, varNamesSeen, combinedParsed, darkSelectorRead, valueDropped,
                   lists, dist, sortVars, mainVars>>

\* one iteration of the loop over the lines of the current file
ParseLine ==
    /\ pc = "parsing" /\ inFile
    /\ lineNo < MaxLines
    /\ \E line \in SourceLines(baseName) : ProcessLine(line)
    /\ lineNo' = lineNo + 1
    /\ UNCHANGED <<baseName, sourceFiles, pc, fileIdx, inFile, lists, dist, sortVars, mainVars>>

\* the lines of the current file are exhausted
EndOfFile ==
    /\ pc = "parsing" /\ inFile
    /\ lineNo >= 1
    /\ inFile' = FALSE
    /\ fileIdx' = fileIdx + 1
    /\ UNCHANGED <<baseName, sourceFiles, pc, lineNo, currentSelectorScope, braceLevel,
                   varNamesSeen, combinedParsed, darkSelectorRead, valueDropped, lists, dist,
                   sortVars, mainVars>>

\* all files are parsed: the emission loop, the assembly and the write
Generate ==
    /\ pc = "parsing" /\ ~inFile /\ fileIdx > Len(sourceFiles)
    /\ lists' = FinalLists(baseName, combinedParsed, varNamesSeen)
    /\ dist' = [f \in DOMAIN dist \cup {OutputFileName(baseName)} |->
                   IF f = OutputFileName(baseName)
                   THEN Cat(TrimText(BuildCss(baseName, lists')), <<"", "">>)
                   ELSE dist[f]]
    /\ pc' = "written"
    /\ UNCHANGED <<baseName, sourceFiles, fileIdx, inFile, lineNo, currentSelectorScope,
                   braceLevel, varNamesSeen, combinedParsed, darkSelectorRead, valueDropped,
                   sortVars, mainVars>>

Next ==
    \/ OpenFile
    \/ SkipEmptyFile
    \/ SkipMissingFile
    \/ FailRead
    \/ ParseLine
    \/ EndOfFile
    \/ Generate

Spec == Init /\ [][Next]_vars

\* the same call for a group whose source text holds declarations with
\* names of other shapes
NamesInit ==
    /\ baseName = "gray"
    /\ sourceFiles \in GroupFiles(baseName)
    /\ pc = "parsing"
    /\ fileIdx = 1
    /\ inFile = FALSE
    /\ lineNo = 0
    /\ currentSelectorScope = "unknown"
    /\ braceLevel = 0
    /\ varNamesSeen = <<>>
    /\ combinedParsed = <<>>
    /\ darkSelectorRead = FALSE
    /\ valueDropped = FALSE
    /\ lists = EmptyLists
    /\ dist = <<>>
    /\ SortIdle
    /\ MainIdle

NamesSpec == NamesInit /\ [][Next]_vars

----------------------------------------------------------------------------
(* Reading the written family file *)

Written == pc = "written"

\* the content of the family file, once written
Out == dist[baseName \o ".css"]

EndsWith(s, suffix) ==
    Len(s) >= Len(suffix) /\ SubSeq(s, Len(s) - Len(suffix) + 1, Len(s)) = suffix

LightSelectorGroups == {":root", ":root, .light, .light-theme"}

\* the block a declaration belongs to, by the wrapper, the selector group
\* around it and the variable it defines
BlockKind(w, sel, name) ==
    LET base  == StartsWith(name, "--radix-rgb-")
        inter == StartsWith(name, "--radix-intermediate-")
        alias == StartsWith(name, "--color-")
    IN  CASE ~w /\ base /\ sel \in LightSelectorGroups -> "light"
          [] ~w /\ inter /\ sel = ":root" -> "intermediate"
          [] ~w /\ base /\ sel = ".dark, .dark-theme" -> "dark"
          [] ~w /\ alias /\ sel = "@theme inline" -> "theme"
          [] w /\ inter /\ sel = ":root" -> "p3intermediate"
          [] w /\ base /\ sel \in LightSelectorGroups -> "p3light"
          [] w /\ base /\ sel = ".dark, .dark-theme" -> "p3dark"
          [] OTHER -> "none"

NoDeclaration == [decl |-> FALSE, kind |-> "none", name |-> "", selector |-> "", opener |-> 0]

\* One pass over the lines of a file from line i on.  `pending` is the
\* selector group read so far (lines that end with a comma), `sel` the
\* selector group of the open block ("" outside every block), `opener` the
\* line that opened it, `w` whether the @supports wrapper is open.  Gives,
\* per line, whether it is a declaration, and for a declaration its block,
\* its variable, and the selector group and the opening line of its block.
RECURSIVE Scan(_, _, _, _, _, _)
Scan(t, i, pending, sel, opener, w) ==
    IF i > Len(t) THEN <<>>
    ELSE LET l == t[i]
             x == Trim(l)
             name == LineVarName(l)
             group(part) == IF pending = "" THEN part ELSE pending \o " " \o part
         IN  IF StartsWith(x, "--")
             THEN <<[decl |-> TRUE, kind |-> BlockKind(w, sel, name),
                     name |-> name, selector |-> sel, opener |-> opener]>>
                  \o Scan(t, i + 1, "", sel, opener, w)
             ELSE <<NoDeclaration>>
                  \o (IF EndsWith(x, "{")
                      THEN Scan(t, i + 1, "", group(Trim(SubSeq(x, 1, Len(x) - 1))), i,
                                w \/ StartsWith(l, "@supports"))
                      ELSE IF EndsWith(x, ",") THEN Scan(t, i + 1, group(x), "", 0, w)
                      ELSE IF x = "}" THEN Scan(t, i + 1, "", "", 0, w /\ l # "}")
                      ELSE Scan(t, i + 1, "", sel, opener, w))

\* the written file, line by line
Scanned == Scan(Out, 1, "", "", 0, FALSE)

\* the declaration lines, and those of one block
Decls(b) == {i \in 1..Len(b) : b[i].decl}
KindLines(b, kind) == {i \in 1..Len(b) : b[i].kind = kind}

\* the stem of the output variables of the group
ExpectedOutputStem ==
    IF baseName = "black-alpha" THEN "black"
    ELSE IF baseName = "white-alpha" THEN "white"
    ELSE baseName

\* the index of a parsed variable: what follows "--<stem>-"
IndexOfKey(k) == SubSeq(k, Len("--" \o ExpectedOutputStem \o "-") + 1, Len(k))

BaseVar(x) == "--radix-rgb-" \o ExpectedOutputStem \o "-" \o x
IntermediateVar(x) == "--radix-intermediate-" \o ExpectedOutputStem \o "-" \o x
ThemeVar(x) == "--color-" \o ExpectedOutputStem \o "-" \o x

\* the four slots of a record
Slots(rec) == <<rec.light.srgb, rec.light.p3, rec.dark.srgb, rec.dark.p3>>

Converts(literal) == Truthy(ConvertFallback(literal).oklchString)

----------------------------------------------------------------------------
(* First-wins slot policy *)

\* the lines by which the block `kind` defines the base variable of index x
EmittedValues(b, kind, x) ==
    {Trim(Out[i]) : i \in {j \in KindLines(b, kind) : b[j].name = BaseVar(x)}}

\* a step leaves every filled slot as it is, and fills an empty slot only
\* with the value of a declaration of that variable
SlotsKept ==
    \A k \in DOMAIN combinedParsed :
        /\ k \in DOMAIN combinedParsed'
        /\ \A n \in 1..4 :
              LET old == Slots(combinedParsed[k])[n]
                  new == Slots(combinedParsed'[k])[n]
              IN  /\ old # NULL => new = old
                  /\ old = NULL /\ new # NULL =>
                        ("  " \o k \o ": " \o new[1] \o ";") \in SourceLines(baseName)

\* the written file gives each base variable the conversion of the value its
\* fallback slot holds, and in the override blocks the value of its gamut slot
StoredValuesEmitted ==
    Written =>
        LET b == Scanned
        IN  \A k \in DOMAIN combinedParsed :
                LET rec == combinedParsed[k]
                    x   == IndexOfKey(k)
                IN  /\ rec.light.srgb # NULL /\ Converts(rec.light.srgb[1]) =>
                          EmittedValues(b, "light", x) =
                              {BaseVar(x) \o ": " \o FinalValue(ConvertFallback(rec.light.srgb[1])) \o ";"}
                    /\ rec.dark.srgb # NULL /\ Converts(rec.dark.srgb[1]) =>
                          EmittedValues(b, "dark", x) =
                              {BaseVar(x) \o ": " \o FinalValue(ConvertFallback(rec.dark.srgb[1])) \o ";"}
                    /\ rec.light.srgb # NULL /\ rec.light.p3 # NULL =>
                          EmittedValues(b, "p3light", x) = {BaseVar(x) \o ": " \o rec.light.p3[1] \o ";"}
                    /\ rec.dark.srgb # NULL /\ rec.dark.p3 # NULL =>
                          EmittedValues(b, "p3dark", x) = {BaseVar(x) \o ": " \o rec.dark.p3[1] \o ";"}

\* C1: while the files of a group are parsed, each slot of a record goes from
\* empty to a value at most once and never changes afterwards, and the value
\* the written file carries for a slot is the one the slot holds, the first
\* one encountered: later definitions of the same slot are dropped.
C1_FirstWins == [][SlotsKept]_vars /\ []StoredValuesEmitted

\* a second, different definition of a filled slot was read and the file is
\* written with the first value
C1_Witness ==
    /\ Written
    /\ valueDropped
    /\ "--red-1" \in DOMAIN combinedParsed
    /\ combinedParsed["--red-1"].light.srgb = Some("#FF0000")
    /\ EmittedValues(Scanned, "light", "1") = {"--radix-rgb-red-1: 0.628 0.258 29.234;"}

----------------------------------------------------------------------------
(* Theme aliases and failing conversions *)

\* C2: in every written family file, each theme-alias variable of the theme
\* block has exactly one definition of its intermediate variable in the
\* global intermediate block, whatever records were parsed.
C2_ThemeAliasHasIntermediate ==
    Written =>
        LET b == Scanned
        IN  \A i \in KindLines(b, "theme") :
                LET x == SubSeq(b[i].name, Len("--color-") + 1, Len(b[i].name))
                IN  Cardinality({j \in KindLines(b, "intermediate") :
                                    b[j].name = "--radix-intermediate-" \o x}) = 1

\* a record has a fallback literal, and no fallback literal of it converts
FallbackFails(rec) ==
    /\ rec.light.srgb # NULL \/ rec.dark.srgb # NULL
    /\ rec.light.srgb # NULL => ~Converts(rec.light.srgb[1])
    /\ rec.dark.srgb # NULL => ~Converts(rec.dark.srgb[1])

\* C3: a record whose fallback literal fails conversion does not abort the
\* family (only an unreadable file does), the file is written, and no block
\* of it holds a line for the failing variable.
C3_FailingVariableOmitted ==
    /\ pc = "failed" =>
          \E n \in 1..Len(sourceFiles) : sourceFiles[n].status \notin {"ok", "empty", "ENOENT"}
    /\ Written =>
          LET b == Scanned
          IN  /\ (baseName \o ".css") \in DOMAIN dist
              /\ \A k \in DOMAIN combinedParsed :
                    FallbackFails(combinedParsed[k]) =>
                        \A i \in Decls(b) :
                            b[i].name \notin
                                {BaseVar(IndexOfKey(k)), IntermediateVar(IndexOfKey(k)),
                                 ThemeVar(IndexOfKey(k))}

----------------------------------------------------------------------------
(* Variable naming *)

\* C6: every line of the written file names its variable after the output
\* stem s and the index i of a parsed record: a base variable
\* --radix-rgb-s-i, the intermediate line
\* "--radix-intermediate-s-i: oklch(var(--radix-rgb-s-i));" (in the wrapper
\* "--radix-intermediate-s-i: var(--radix-rgb-s-i);") or the theme-alias line
\* "--color-s-i: var(--radix-intermediate-s-i);".  Every record with an index
\* has its theme-alias line, and with a base line its intermediate line.  For
\* black-alpha and white-alpha s is "black" / "white"; the file is named
\* after the group.
C6_VariableNaming ==
    Written =>
        LET t == Out
            b == Scanned
            indexes == {IndexOfKey(k) : k \in DOMAIN combinedParsed}
        IN  /\ DOMAIN dist = {baseName \o ".css"}
            /\ \A i \in Decls(b) :
                  \E x \in indexes :
                      \/ /\ b[i].kind \in {"light", "dark", "p3light", "p3dark"}
                         /\ StartsWith(Trim(t[i]), BaseVar(x) \o ": ")
                      \/ /\ b[i].kind = "intermediate"
                         /\ t[i] = "  " \o IntermediateVar(x) \o ": oklch(var(" \o BaseVar(x) \o "));"
                      \/ /\ b[i].kind = "p3intermediate"
                         /\ Trim(t[i]) = IntermediateVar(x) \o ": var(" \o BaseVar(x) \o ");"
                      \/ /\ b[i].kind = "theme"
                         /\ t[i] = "  " \o ThemeVar(x) \o ": var(" \o IntermediateVar(x) \o ");"
            /\ \A x \in indexes :
                  /\ \E i \in KindLines(b, "theme") : b[i].name = ThemeVar(x)
                  /\ (\E i \in KindLines(b, "light") \cup KindLines(b, "dark") :
                          b[i].name = BaseVar(x))
                     => \E i \in KindLines(b, "intermediate") : b[i].name = IntermediateVar(x)

\* the file black-alpha.css is written with the lines of --black-a1
C6_Witness ==
    /\ Written
    /\ baseName = "black-alpha"
    /\ "black-alpha.css" \in DOMAIN dist
    /\ \E i \in KindLines(Scanned, "light") : Scanned[i].name = "--radix-rgb-black-a1"
    /\ \E i \in KindLines(Scanned, "intermediate") :
          Out[i] = "  --radix-intermediate-black-a1: oklch(var(--radix-rgb-black-a1));"
    /\ \E i \in KindLines(Scanned, "theme") :
          Out[i] = "  --color-black-a1: var(--radix-intermediate-black-a1);"

----------------------------------------------------------------------------
(* Assembly of the family file *)

KindRank(kind) ==
    CASE kind = "light" -> 1 [] kind = "intermediate" -> 2 [] kind = "dark" -> 3
      [] kind = "theme" -> 4 [] kind = "p3intermediate" -> 5 [] kind = "p3light" -> 6
      [] kind = "p3dark" -> 7 [] OTHER -> 0

AllKinds ==
    {"light", "intermediate", "dark", "theme", "p3intermediate", "p3light", "p3dark"}

ListOf(kind) ==
    CASE kind = "light" -> lists.lightRgbLines
      [] kind = "intermediate" -> lists.intermediateLines
      [] kind = "dark" -> lists.darkRgbLines
      [] kind = "theme" -> lists.themeLines
      [] kind = "p3intermediate" -> lists.p3IntermediateOverrides
      [] kind = "p3light" -> lists.p3LightOverrides
      [] kind = "p3dark" -> lists.p3DarkOverrides

HasWrapper(t) == \E j \in 1..Len(t) : StartsWith(t[j], "@supports")

\* C8: a block is in the written file if and only if its list has a line:
\* every line that opens a block is followed by a declaration (the two
\* wrapper lines by the line that opens what they wrap), so no block is
\* empty, and the @supports/@media wrapper is there if and only if one of
\* the three override lists has a line.
C8_BlockIffLines ==
    Written =>
        LET t == Out
            b == Scanned
        IN  /\ \A j \in 1..Len(t) :
                  EndsWith(t[j], "{") =>
                      /\ j < Len(t)
                      /\ IF StartsWith(t[j], "@supports")
                         THEN StartsWith(t[j + 1], "  @media") /\ EndsWith(t[j + 1], "{")
                         ELSE IF StartsWith(t[j], "  @media")
                         THEN Trim(t[j + 1]) \notin {"}", ""}
                         ELSE b[j + 1].decl
            /\ \A kind \in AllKinds : Cardinality(KindLines(b, kind)) = Len(ListOf(kind))
            /\ HasWrapper(t) =
                  (\/ lists.p3IntermediateOverrides # <<>>
                   \/ lists.p3LightOverrides # <<>>
                   \/ lists.p3DarkOverrides # <<>>)

\* a file with a light block and a light override block in the wrapper, and
\* with neither a dark block nor a dark override block
C8_Witness ==
    /\ Written
    /\ lists.lightRgbLines # <<>> /\ KindLines(Scanned, "light") # {}
    /\ lists.darkRgbLines = <<>> /\ KindLines(Scanned, "dark") = {}
    /\ lists.p3LightOverrides # <<>> /\ HasWrapper(Out)
    /\ lists.p3DarkOverrides = <<>> /\ KindLines(Scanned, "p3dark") = {}

\* C9: the light block and the light override block are under the single
\* selector ":root" for the groups black-alpha and white-alpha, and under
\* the selector group ":root, .light, .light-theme" for every other family.
C9_LightSelectors ==
    Written =>
        LET b == Scanned
        IN  \A i \in KindLines(b, "light") \cup KindLines(b, "p3light") :
                b[i].selector =
                    (IF baseName \in {"black-alpha", "white-alpha"}
                     THEN ":root"
                     ELSE ":root, .light, .light-theme")

\* black-alpha.css written with a light block and a light override block
C9_Witness ==
    /\ Written
    /\ baseName = "black-alpha"
    /\ \E i \in KindLines(Scanned, "light") : Scanned[i].selector = ":root"
    /\ \E i \in KindLines(Scanned, "p3light") : Scanned[i].selector = ":root"

----------------------------------------------------------------------------
(* Missing dark companion *)

\* the group is a base file that is read and a dark companion that does not
\* exist, and no dark selector was read from the base file
MissingDarkCompanion ==
    /\ Len(sourceFiles) = 2
    /\ sourceFiles[1].status \in {"ok", "empty"}
    /\ sourceFiles[2].status = "ENOENT"
    /\ ~darkSelectorRead

----------------------------------------------------------------------------
(* sortVarNames(a, b) and Array.prototype.sort(sortVarNames) on their own *)

\* the identifiers handed to the comparator: solid and alpha indexes of one
\* stem, another stem, a stem holding a digit, and a name whose index does
\* not parse
SortIds ==
    { "--red-1", "--red-2", "--red-10", "--red-a1", "--red-a2", "--red-a10",
      "--blue-1", "--x2-2", "--x2-10", "--red-1x" }

\* the arrays of at most n identifiers
RECURSIVE ArraysUpTo(_)
ArraysUpTo(n) ==
    IF n = 0 THEN {<<>>}
    ELSE LET shorter == ArraysUpTo(n - 1)
         IN  shorter \cup {Append(arr, x) : arr \in shorter, x \in SortIds}

PipelineIdle ==
    /\ baseName = ""
    /\ sourceFiles = <<>>
    /\ pc = "idle"
    /\ fileIdx = 1
    /\ inFile = FALSE
    /\ lineNo = 0
    /\ currentSelectorScope = "unknown"
    /\ braceLevel = 0
    /\ varNamesSeen = <<>>
    /\ combinedParsed = <<>>
    /\ darkSelectorRead = FALSE
    /\ valueDropped = FALSE
    /\ lists = EmptyLists
    /\ dist = <<>>

\* the calls: sortVarNames(a, b), or arr.sort(sortVarNames)
SortCalls ==
    {[op |-> "compare", args |-> <<a, b>>] : a \in SortIds, b \in SortIds}
    \cup {[op |-> "sort", args |-> arr] : arr \in ArraysUpTo(MaxSortLen)}

SortInit ==
    /\ PipelineIdle
    /\ MainIdle
    /\ sortCall \in SortCalls
    /\ sortResult = NULL

\* the call sortVarNames(a, b) returns
Compare ==
    /\ sortCall.op = "compare" /\ sortResult = NULL
    /\ sortResult' = Some(sortVarNames(sortCall.args[1], sortCall.args[2]))
    /\ UNCHANGED <<sortCall, pipelineVars, mainVars>>

\* the call arr.sort(sortVarNames) returns
SortArray ==
    /\ sortCall.op = "sort" /\ sortResult = NULL
    /\ sortResult' = Some(SortedVarNames(sortCall.args))
    /\ UNCHANGED <<sortCall, pipelineVars, mainVars>>

SortNext ==
    \/ Compare
    \/ SortArray

SortSpec == SortInit /\ [][SortNext]_vars

----------------------------------------------------------------------------
(* Order of the comparator *)

\* what follows the last hyphen of an identifier
TrailingIndex(a) == SubSeq(a, LastIndexOf(a, "-") + 1, Len(a))

\* the number of an index, without the "a" of an alpha index
IndexNumber(ix) == ParseIntDec(IF IsAlphaIndex(ix) THEN SubSeq(ix, 2, Len(ix)) ELSE ix)

Sign(n) == IF n < 0 THEN -1 ELSE IF n > 0 THEN 1 ELSE 0

\* C4: for two identifiers whose trailing index parses as \d+ or a\d+,
\* whatever their stems, a solid identifier orders before an alpha-prefixed
\* one, and within the solid group and within the alpha group the order is
\* the ascending numeric value of the index.
C4_SolidBeforeAlphaNumeric ==
    (sortCall.op = "compare" /\ sortResult # NULL) =>
        LET ia == TrailingIndex(sortCall.args[1])
            ib == TrailingIndex(sortCall.args[2])
        IN  IsIndex(ia) /\ IsIndex(ib) =>
                /\ IsSolidIndex(ia) /\ IsAlphaIndex(ib) => sortResult[1] < 0
                /\ IsAlphaIndex(ia) /\ IsSolidIndex(ib) => sortResult[1] > 0
                /\ IsSolidIndex(ia) = IsSolidIndex(ib) =>
                      /\ IndexNumber(ia) < IndexNumber(ib) => sortResult[1] < 0
                      /\ IndexNumber(ia) > IndexNumber(ib) => sortResult[1] > 0

\* the arrangements of an array
Arrangements(arr) ==
    {[i \in 1..Len(arr) |-> arr[f[i]]] :
        f \in {g \in [1..Len(arr) -> 1..Len(arr)] : \A i, j \in 1..Len(arr) : g[i] = g[j] => i = j}}

\* C5: the comparator is a total order over identifiers: it returns 0 only
\* for identical identifiers, it is antisymmetric, it is transitive over the
\* identifiers of any array, and sorting any arrangement of the same
\* identifiers yields the same sequence.
C5_TotalOrder ==
    /\ (sortCall.op = "compare" /\ sortResult # NULL) =>
          LET a == sortCall.args[1]
              b == sortCall.args[2]
          IN  /\ sortResult[1] = 0 => a = b
              /\ Sign(sortVarNames(b, a)) = 0 - Sign(sortResult[1])
    /\ (sortCall.op = "sort" /\ sortResult # NULL) =>
          LET arr == sortCall.args
              ids == {arr[i] : i \in 1..Len(arr)}
          IN  /\ \A a \in ids, b \in ids, c \in ids :
                    sortVarNames(a, b) < 0 /\ sortVarNames(b, c) < 0 => sortVarNames(a, c) < 0
              /\ \A other \in Arrangements(arr) : SortedVarNames(other) = sortResult[1]

----------------------------------------------------------------------------
(* main(): discovery, grouping, the group tasks and the manifest *)

\* entries in the listing of the source directory
MaxEntries == 3

\* the entries the source directory may hold
SourceEntries ==
    { "red.css", "red-dark.css", "red-alpha.css", "black-alpha.css", "blue.css",
      "red-p3.css", "index.js" }

\* what Bun.file(path).text() gives for an entry: blue.css cannot be read;
\* red.css and red-alpha.css both declare --red-1 in the light scope
SourceText(file) ==
    CASE file = "red.css" ->
           [status |-> "ok",
            lines |-> <<":root, .light, .light-theme {", "  --red-1: #FF0000;", "}">>]
      [] file = "red-dark.css" ->
           [status |-> "ok",
            lines |-> <<".dark, .dark-theme {", "  --red-1: #0000FF;", "}">>]
      [] file = "red-alpha.css" ->
           [status |-> "ok",
            lines |-> <<":root, .light, .light-theme {", "  --red-1: #0000FF;",
                        "  --red-a1: #FF000080;", "}">>]
      [] file = "black-alpha.css" ->
           [status |-> "ok",
            lines |-> <<":root {", "  --black-a1: rgba(0, 0, 0, 0.5);", "}">>]
      [] file = "blue.css" -> [status |-> "EACCES", lines |-> <<>>]
      [] OTHER -> [status |-> "ok", lines |-> <<"">>]

\* the listings fs.readdir may return: entries without repetition, in any order
RECURSIVE ListingsUpTo(_)
ListingsUpTo(n) ==
    IF n = 0 THEN {<<>>}
    ELSE LET shorter == ListingsUpTo(n - 1)
         IN  shorter \cup
             UNION {{Append(l, f) : f \in SourceEntries \ {l[i] : i \in 1..Len(l)}} : l \in shorter}

\* what the output directory holds before the run: nothing, or the files of
\* an earlier run
StaleDist ==
    { <<>>,
      [f \in {"radix-colors.css", "green.css"} |-> <<"/* earlier run */", "">>] }

\* s is a run of "-dark" and "-alpha": (?:-(?:dark|alpha))*
RECURSIVE IsDarkAlphaRun(_)
IsDarkAlphaRun(s) ==
    \/ s = ""
    \/ StartsWith(s, "-dark") /\ IsDarkAlphaRun(SubSeq(s, 6, Len(s)))
    \/ StartsWith(s, "-alpha") /\ IsDarkAlphaRun(SubSeq(s, 7, Len(s)))

\* file.match(/^(black|white)-alpha.css$/): the captured name, or NULL
\* (the "." of the pattern matches any character)
alphaNameRegexMatch(file) ==
    IF /\ Len(file) = 15
       /\ SubSeq(file, 1, 5) \in {"black", "white"}
       /\ SubSeq(file, 6, 11) = "-alpha"
       /\ Char(file, 12) \notin {"\n", "\r"}
       /\ SubSeq(file, 13, 15) = "css"
    THEN Some(SubSeq(file, 1, 5))
    ELSE NULL

\* file.match(/^([a-z]+)(?:-(?:dark|alpha))*.css$/): the captured name, or NULL
nameRegexMatch(file) ==
    LET e    == RunEnd(file, 1, LowerLetters)
        n    == Len(file)
        stems == {k \in 1..e : /\ n - 4 >= k
                               /\ IsDarkAlphaRun(SubSeq(file, k + 1, n - 4))
                               /\ Char(file, n - 3) \notin {"\n", "\r"}
                               /\ SubSeq(file, n - 2, n) = "css"}
    IN  IF stems = {} THEN NULL
        ELSE Some(SubSeq(file, 1, CHOOSE k \in stems : \A m \in stems : m <= k))

\* the group key of a source file, or NULL when the file belongs to no group
GroupKey(file) ==
    IF alphaNameRegexMatch(file) # NULL THEN Some(alphaNameRegexMatch(file)[1] \o "-alpha")
    ELSE nameRegexMatch(file)

\* allSourceFiles.filter(file => file.endsWith(".css"))
CssFiles(listing) == SelectSeq(listing, LAMBDA f : EndsWith(f, ".css"))

\* the loop that fills fileGroups: the groups in key insertion order, each
\* with its files in listing order
RECURSIVE GroupFilesByName(_)
GroupFilesByName(cssFiles) ==
    IF cssFiles = <<>> THEN <<>>
    ELSE LET before == GroupFilesByName(SubSeq(cssFiles, 1, Len(cssFiles) - 1))
             file   == cssFiles[Len(cssFiles)]
             key    == GroupKey(file)
             at     == {i \in 1..Len(before) : key # NULL /\ before[i].baseName = key[1]}
         IN  IF key = NULL THEN before
             ELSE IF at = {} THEN Append(before, [baseName |-> key[1], files |-> <<file>>])
             ELSE [i \in 1..Len(before) |->
                      IF i \in at THEN [before[i] EXCEPT !.files = Append(@, file)]
                      ELSE before[i]]

\* the lines of one file put through the line loop, from a fresh scope:
\* i is the number of lines already consumed
RECURSIVE ParseLines(_, _, _, _)
ParseLines(st, lines, i, b) ==
    IF i >= Len(lines) THEN st
    ELSE ParseLines(LineLoopStep(st, lines[i + 1], b), lines, i + 1, b)

\* the record table after one more file of the group b: scope and nesting
\* start afresh in every file
ParseFile(parsed, seen, lines, b) ==
    ParseLines([scope |-> "unknown", brace |-> 0, parsed |-> parsed, seen |-> seen,
                darkRead |-> FALSE, dropped |-> FALSE], lines, 0, b)

\* cssContent.trim() + "\n" for the record table of the group b
FamilyContent(b, parsed, seen) ==
    Cat(TrimText(BuildCss(b, FinalLists(b, parsed, seen))), <<"", "">>)

\* the characters of file names in UTF-16 code unit order
CodeUnitOrder == "-.0123456789ABCDEFGHIJKLMNOPQRSTUVWXYZ_abcdefghijklmnopqrstuvwxyz"

\* a < b in the order of Array.prototype.sort() without a comparator
RECURSIVE CodeUnitLess(_, _)
CodeUnitLess(a, b) ==
    IF a = "" THEN b # ""
    ELSE IF b = "" THEN FALSE
    ELSE IF Char(a, 1) = Char(b, 1) THEN CodeUnitLess(SubSeq(a, 2, Len(a)), SubSeq(b, 2, Len(b)))
    ELSE IndexOf(CodeUnitOrder, Char(a, 1)) < IndexOf(CodeUnitOrder, Char(b, 1))

\* the names of a set, sorted by code units
RECURSIVE SortedNames(_)
SortedNames(names) ==
    IF names = {} THEN <<>>
    ELSE LET least == CHOOSE a \in names : \A c \in names : c = a \/ CodeUnitLess(a, c)
         IN  <<least>> \o SortedNames(names \ {least})

\* (await fs.readdir(outputDirPath)).filter(file => file.endsWith(".css")).sort()
ListedCss(dir) == SortedNames({f \in DOMAIN dir : EndsWith(f, ".css")})

\* the import lines of the manifest
ImportLines(files) ==
    [i \in 1..Len(files) |-> "@import \"radix-colors-tailwind/dist/" \o files[i] \o "\";"]

\* mainCssContent.trim() + "\n"
ManifestContent(files) ==
    Cat(TrimText(Cat(Cat(headerComment, <<"", "", "">>),
                     IF files = <<>> THEN Text("") ELSE Cat(Joined(ImportLines(files)), <<"", "">>))),
        <<"", "">>)

ManifestName == "radix-colors.css"

\* the variables of a single call of parseAndGenerateCombinedCss, which main
\* leaves alone
callVars == <<baseName, sourceFiles, pc, fileIdx, inFile, lineNo, currentSelectorScope,
              braceLevel, varNamesSeen, combinedParsed, darkSelectorRead, valueDropped, lists>>

CallIdle ==
    /\ baseName = ""
    /\ sourceFiles = <<>>
    /\ pc = "idle"
    /\ fileIdx = 1
    /\ inFile = FALSE
    /\ lineNo = 0
    /\ currentSelectorScope = "unknown"
    /\ braceLevel = 0
    /\ varNamesSeen = <<>>
    /\ combinedParsed = <<>>
    /\ darkSelectorRead = FALSE
    /\ valueDropped = FALSE
    /\ lists = EmptyLists

MainInit ==
    /\ CallIdle
    /\ SortIdle
    /\ dist \in StaleDist
    /\ mainPc = "start"
    /\ allSourceFiles \in ListingsUpTo(MaxEntries)
    /\ fileGroups = <<>>
    /\ tasks = <<>>
    /\ generatedFiles = <<>>

\* a variant that leaves the files of an earlier run in the output directory
CleanOutputDir_KeepsFiles ==
    /\ mainPc = "start"
    /\ mainPc' = "cleaned"
    /\ UNCHANGED <<callVars, sortVars, dist, allSourceFiles, fileGroups, tasks, generatedFiles>>

\* fs.access / fs.rm / fs.mkdir: an existing output directory is removed with
\* all it holds (the removal succeeds), and an empty one is created
CleanOutputDir ==
    /\ mainPc = "start"
    /\ dist' = <<>>
    /\ mainPc' = "cleaned"
    /\ UNCHANGED <<callVars, sortVars, allSourceFiles, fileGroups, tasks, generatedFiles>>

\* a variant that starts a task of its own for every source file of a group
LaunchTasks_PerFile(groups) ==
    LET perFile == [i \in 1..Len(CssFiles(allSourceFiles)) |->
                       [baseName |-> IF GroupKey(CssFiles(allSourceFiles)[i]) = NULL THEN "none"
                                     ELSE GroupKey(CssFiles(allSourceFiles)[i])[1],
                        files |-> <<CssFiles(allSourceFiles)[i]>>]]
    IN  SelectSeq(perFile, LAMBDA g : g.baseName # "none")

\* Object.keys(fileGroups).map(...): the groups for which the emitter is called
LaunchTasks(groups) == SelectSeq(groups, LAMBDA g : Len(g.files) > 0)

\* the listing is read and grouped, and every group's task is started: each
\* runs up to its first await file.text()
Discover ==
    /\ mainPc = "cleaned"
    /\ fileGroups' = LaunchTasks(GroupFilesByName(CssFiles(allSourceFiles)))
    /\ tasks' = [i \in 1..Len(fileGroups') |->
                    [pc |-> "reading", fileIdx |-> 1, parsed |-> <<>>, seen |-> <<>>,
                     content |-> <<>>]]
    /\ mainPc' = "awaiting"
    /\ UNCHANGED <<callVars, sortVars, dist, allSourceFiles, generatedFiles>>

\* the task of group i resumes with the text of its next file; behind the
\* last file it runs on to the call of Bun.write
TaskRead(i) ==
    LET g    == fileGroups[i]
        t    == tasks[i]
        text == SourceText(g.files[t.fileIdx])
        st   == ParseFile(t.parsed, t.seen, text.lines, g.baseName)
        last == t.fileIdx = Len(g.files)
    IN  /\ t.pc = "reading"
        /\ text.status = "ok"
        /\ tasks' = [tasks EXCEPT ![i] =
                        [pc |-> IF last THEN "writing" ELSE "reading",
                         fileIdx |-> t.fileIdx + 1,
                         parsed |-> st.parsed,
                         seen |-> st.seen,
                         content |-> IF last THEN FamilyContent(g.baseName, st.parsed, st.seen)
                                     ELSE <<>>]]
        /\ UNCHANGED <<callVars, sortVars, dist, mainPc, allSourceFiles, fileGroups, generatedFiles>>

\* the read of the task's next file fails with an error other than ENOENT:
\* the task's promise rejects
TaskFail(i) ==
    /\ tasks[i].pc = "reading"
    /\ SourceText(fileGroups[i].files[tasks[i].fileIdx]).status \notin {"ok", "ENOENT"}
    /\ tasks' = [tasks EXCEPT ![i].pc = "failed"]
    /\ UNCHANGED <<callVars, sortVars, dist, mainPc, allSourceFiles, fileGroups, generatedFiles>>

\* Bun.write of the task of group i completes: the task's promise fulfils
TaskWritten(i) ==
    /\ tasks[i].pc = "writing"
    /\ dist' = [f \in DOMAIN dist \cup {OutputFileName(fileGroups[i].baseName)} |->
                   IF f = OutputFileName(fileGroups[i].baseName) THEN tasks[i].content
                   ELSE dist[f]]
    /\ tasks' = [tasks EXCEPT ![i].pc = "done"]
    /\ UNCHANGED <<callVars, sortVars, mainPc, allSourceFiles, fileGroups, generatedFiles>>

\* Promise.all rejects as soon as one task has rejected: main throws, and
\* the tasks still pending run on
AbortMain ==
    /\ mainPc = "awaiting"
    /\ \E i \in 1..Len(tasks) : tasks[i].pc = "failed"
    /\ mainPc' = "failed"
    /\ UNCHANGED <<callVars, sortVars, dist, allSourceFiles, fileGroups, tasks, generatedFiles>>

\* a variant of the wait that does not wait for the tasks
AllSettled_NoWait == TRUE

\* a variant of the wait that goes on once every task has settled, fulfilled
\* or rejected
AllSettled_AnyOutcome == \A i \in 1..Len(tasks) : tasks[i].pc \in {"done", "failed"}

\* Promise.all fulfils when every task has fulfilled
AllSettled == \A i \in 1..Len(tasks) : tasks[i].pc = "done"

\* await Promise.all(generationPromises), then the output directory is listed
ListOutputDir ==
    /\ mainPc = "awaiting"
    /\ AllSettled
    /\ generatedFiles' = ListedCss(dist)
    /\ mainPc' = "listed"
    /\ UNCHANGED <<callVars, sortVars, dist, allSourceFiles, fileGroups, tasks>>

\* the manifest is assembled from the listing and written
WriteManifest ==
    /\ mainPc = "listed"
    /\ dist' = [f \in DOMAIN dist \cup {ManifestName} |->
                   IF f = ManifestName THEN ManifestContent(generatedFiles) ELSE dist[f]]
    /\ mainPc' = "done"
    /\ UNCHANGED <<callVars, sortVars, allSourceFiles, fileGroups, tasks, generatedFiles>>

MainNext ==
    \/ CleanOutputDir
    \/ Discover
    \/ \E i \in 1..Len(tasks) : TaskRead(i)
    \/ \E i \in 1..Len(tasks) : TaskFail(i)
    \/ \E i \in 1..Len(tasks) : TaskWritten(i)
    \/ AbortMain
    \/ ListOutputDir
    \/ WriteManifest

MainSpec == MainInit /\ [][MainNext]_vars

----------------------------------------------------------------------------
(* Discovery, the wait for the tasks, and the manifest *)

\* the source files of the listing that fall into a group
UsableFiles == {allSourceFiles[i] : i \in {j \in 1..Len(allSourceFiles) :
                    EndsWith(allSourceFiles[j], ".css") /\ GroupKey(allSourceFiles[j]) # NULL}}

\* the output paths of the groups' tasks
FamilyFiles == {OutputFileName(fileGroups[i].baseName) : i \in 1..Len(fileGroups)}

\* C11: if discovery finds no usable source file, the run fails and writes
\* nothing: the output directory holds no family file and no manifest.
C11_ZeroSourcesFatal ==
    (UsableFiles = {} /\ mainPc # "start") => (mainPc # "done" /\ dist = <<>>)

\* every group's output file exists when the output directory is listed
ListedAfterWrites ==
    (mainPc = "awaiting" /\ mainPc' = "listed") =>
        /\ \A i \in 1..Len(tasks) : tasks[i].pc = "done"
        /\ FamilyFiles \subseteq DOMAIN dist
        /\ \A i \in 1..Len(generatedFiles') : generatedFiles'[i] \in DOMAIN dist

\* the manifest exists only once every task has completed its write
ManifestAfterWrites ==
    (mainPc \notin {"start", "idle"} /\ ManifestName \in DOMAIN dist) =>
        /\ mainPc = "done"
        /\ \A i \in 1..Len(tasks) : tasks[i].pc = "done"
        /\ FamilyFiles \subseteq DOMAIN dist

\* C12: under every interleaving of the group tasks, the output directory is
\* listed for the manifest only when every group's output file exists, and the
\* manifest is written only after every task has completed its write.
C12_ManifestAfterAllWrites == [][ListedAfterWrites]_vars /\ []ManifestAfterWrites

\* two groups ran, both wrote, and the directory is listed
C12_Witness ==
    /\ mainPc = "listed"
    /\ Len(tasks) = 2
    /\ \A i \in 1..Len(tasks) : tasks[i].pc = "done"
    /\ generatedFiles = <<"black-alpha.css", "red.css">>

\* the file named by an import line
ImportedFile(line) ==
    SubSeq(line, Len("@import \"radix-colors-tailwind/dist/") + 1, Len(line) - Len("\";"))

FamilyParsed(g) ==
    LET step[k \in 0..Len(g.files)] ==
            IF k = 0 THEN [parsed |-> <<>>, seen |-> <<>>]
            ELSE LET st == ParseFile(step[k - 1].parsed, step[k - 1].seen,
                                     SourceText(g.files[k]).lines, g.baseName)
                 IN  [parsed |-> st.parsed, seen |-> st.seen]
    IN  step[Len(g.files)]

RunOutput(listing) ==
    LET groups == LaunchTasks(GroupFilesByName(CssFiles(listing)))
        names  == {OutputFileName(groups[i].baseName) : i \in 1..Len(groups)}
        family == [f \in names |->
                      LET g == groups[CHOOSE i \in 1..Len(groups) : OutputFileName(groups[i].baseName) = f]
                      IN  FamilyContent(g.baseName, FamilyParsed(g).parsed, FamilyParsed(g).seen)]
    IN  [f \in names \cup {ManifestName} |->
            IF f = ManifestName THEN ManifestContent(SortedNames(names)) ELSE family[f]]

\* C14: a second run on the same source files writes the same family files
\* and the same manifest, byte for byte, also when the directory listing
\* returns the files in another order.
C14_Deterministic ==
    mainPc = "done" => \A other \in Arrangements(allSourceFiles) : RunOutput(other) = dist

\* one group per key of the usable files, every usable file in one group, once
GroupsPartition ==
    mainPc \notin {"start", "cleaned", "idle"} =>
        /\ \A f \in UsableFiles :
              Cardinality({p \in {<<i, k>> : i \in 1..Len(fileGroups), k \in 1..MaxEntries + 1} :
                              p[2] <= Len(fileGroups[p[1]].files)
                              /\ fileGroups[p[1]].files[p[2]] = f}) = 1
        /\ \A i \in 1..Len(fileGroups) : \A k \in 1..Len(fileGroups[i].files) :
              fileGroups[i].files[k] \in UsableFiles
        /\ Len(tasks) = Len(fileGroups)
        /\ {fileGroups[i].baseName : i \in 1..Len(fileGroups)} = {GroupKey(f)[1] : f \in UsableFiles}
        /\ \A i, j \in 1..Len(fileGroups) :
              i # j => OutputFileName(fileGroups[i].baseName) # OutputFileName(fileGroups[j].baseName)
        /\ ManifestName \notin FamilyFiles

\* once the output directory is emptied, no step replaces the content of a
\* file that was written
NoOverwrite ==
    mainPc \notin {"start", "idle"} =>
        \A f \in DOMAIN dist : f \in DOMAIN dist' /\ dist'[f] = dist[f]

\* C15: every source file is in at most one group, the emitter is called
\* once per group, and no two group tasks write the same output path, nor the
\* manifest's: no interleaving lets a task overwrite another's output.
C15_DisjointOutputs == []GroupsPartition /\ [][NoOverwrite]_vars

\* two tasks have their writes pending at the same time
C15_Witness ==
    /\ Len(tasks) = 2
    /\ tasks[1].pc = "writing" /\ tasks[2].pc = "writing"
    /\ Len(fileGroups[1].files) + Len(fileGroups[2].files) = 3

----------------------------------------------------------------------------
(* Names of the parsed variables *)

\* C16 as stated: every key of the parsed record table is the target stem
\* followed by an index matching \d+ or a\d+; a declaration of another shape
\* is never added to the table.
C16_KeysIndexed ==
    \A k \in DOMAIN combinedParsed :
        /\ StartsWith(k, "--" \o expectedStemName(baseName) \o "-")
        /\ IsIndex(IndexOfKey(k))

\* C16, amended: a declaration of the target stem whose name does not end in
\* an index matching \d+ or a\d+ may be stored in the parsed table, but the
\* emission skips it: every variable the written file defines is the base,
\* intermediate or theme-alias variable of a key with such an index, and no
\* line of the file names the other keys.
C16_OnlyIndexedEmitted ==
    Written =>
        LET b == Scanned
            indexed == {k \in DOMAIN combinedParsed :
                           /\ IsIndex(IndexOfKey(k))
                           /\ k = "--" \o expectedStemName(baseName) \o "-" \o IndexOfKey(k)}
        IN  /\ \A i \in Decls(b) :
                  \E k \in indexed :
                      b[i].name \in {BaseVar(IndexOfKey(k)), IntermediateVar(IndexOfKey(k)),
                                     ThemeVar(IndexOfKey(k))}
            /\ \A k \in DOMAIN combinedParsed \ indexed :
                  \A i \in 1..Len(Out) : ~Includes(Out[i], "-" \o IndexOfKey(k) \o ":")

\* the table holds --gray-foo beside --gray-1, and the file is written with
\* the lines of --gray-1
C16_Witness ==
    /\ Written
    /\ "--gray-foo" \in DOMAIN combinedParsed
    /\ "--gray-1" \in DOMAIN combinedParsed
    /\ \E i \in KindLines(Scanned, "light") : Scanned[i].name = "--radix-rgb-gray-1"

----------------------------------------------------------------------------
(* The converters, and the emission of one fallback literal, on their own *)

\* the six digits of the colours whose conversion the tests pin down, of two
\* more greys, of a colour of low hue and of one whose hue is just below 360
HexColourDigits ==
    { "FF0000", "00ff00", "0000FF", "FFFFFF", "000000", "808080",
      "333333", "CCCCCC", "FF0080", "4E3C41" }

\* no alpha byte, or one
HexAlphaDigits == {"", "00", "01", "33", "7f", "80", "CC", "FE", "FF", "ff"}

\* '#' followed by 6 or 8 hexadecimal digits
HexLiterals == {"#" \o c \o a : c \in HexColourDigits, a \in HexAlphaDigits}

\* literals of another shape: the ones of the tests (short, no '#', no
\* hexadecimal digit at all, five digits), a wrong length, and a character
\* that is no hexadecimal digit in each pair and in the alpha byte
OtherHexLiterals ==
    { "#F00", "FF0000", "#GGGFFF", "#FF00", "", "#", "#FF00000", "#FF0000FF0",
      "#G00000", "#0G0000", "#00G000", "#FF0G00", "#0000GF", "#00000G",
      "#FF0000G0", "#FF00008G" }

\* the text of the alpha argument of a functional literal
AlphaTexts ==
    { "1", "1.0", "1.000", "0", "0.5", "0.50", ".5", "0.25", "0.75", "0.8",
      "0.1234", "0.1236", "0.9996", "2" }

RgbaLiterals ==
    {"rgba(" \o c \o ", " \o a \o ")" : c \in {"255, 0, 0", "0, 0, 255", "0, 0, 0"},
                                      a \in AlphaTexts}
    \cup {"rgba( 255 , 0 , 0 , " \o a \o " )" : a \in {"1", "0.5"}}

OtherRgbaLiterals ==
    { "rgb(0, 100, 50)", "rgba(0, 100, 50, 0.5, 1)", "rgba(0, 100, 50)",
      "rgba(foo, bar, baz, 0.1)" }

HslaLiterals ==
    {"hsla(" \o c \o ", " \o a \o ")" : c \in {"0, 100%, 50%", "240, 100%, 50%", "0, 0%, 0%"},
                                      a \in AlphaTexts}

OtherHslaLiterals == { "hsl(0, 100%, 50%)", "hsla(0, 100, 50, 0.5)" }

\* the calls: one converter on a literal, or the loop body of the emitter on
\* a record whose light or dark fallback slot holds the literal
ConvCalls ==
    {[op |-> "hex", args |-> l] : l \in HexLiterals \cup OtherHexLiterals}
    \cup {[op |-> "rgba", args |-> l] : l \in RgbaLiterals \cup OtherRgbaLiterals}
    \cup {[op |-> "hsla", args |-> l] : l \in HslaLiterals \cup OtherHslaLiterals}
    \cup {[op |-> "emit", args |-> <<mode, l>>] :
             mode \in {"light", "dark"},
             l \in HexLiterals \cup {"#FF0G00", "#FF0000G0", "rgba(255, 0, 0, 0.5)"}}

ConvInit ==
    /\ PipelineIdle
    /\ MainIdle
    /\ sortCall \in ConvCalls
    /\ sortResult = NULL

\* the call hexToOklchString(hexCode) returns or throws
CallHex ==
    /\ sortCall.op = "hex" /\ sortResult = NULL
    /\ sortResult' = Some(hexToOklchString(sortCall.args))
    /\ UNCHANGED <<sortCall, pipelineVars, mainVars>>

\* the call rgbaStringToOklchString(rgbaString) returns
CallRgba ==
    /\ sortCall.op = "rgba" /\ sortResult = NULL
    /\ sortResult' = Some(rgbaStringToOklchString(sortCall.args))
    /\ UNCHANGED <<sortCall, pipelineVars, mainVars>>

\* the call hslaStringToOklchString(hslaString) returns or throws
CallHsla ==
    /\ sortCall.op = "hsla" /\ sortResult = NULL
    /\ sortResult' = Some(hslaStringToOklchString(sortCall.args))
    /\ UNCHANGED <<sortCall, pipelineVars, mainVars>>

\* the record of "--red-a1" with one fallback slot set
RecordWith(mode, literal) ==
    IF mode = "light"
    THEN [EmptyParsedColorValue EXCEPT !.light.srgb = Some(literal)]
    ELSE [EmptyParsedColorValue EXCEPT !.dark.srgb = Some(literal)]

\* the loop body of the emitter runs on that record, from empty lists
CallEmit ==
    /\ sortCall.op = "emit" /\ sortResult = NULL
    /\ sortResult' = Some(EmitVariable(EmptyLists, "red",
                                       [k \in {"--red-a1"} |->
                                           RecordWith(sortCall.args[1], sortCall.args[2])],
                                       "--red-a1"))
    /\ UNCHANGED <<sortCall, pipelineVars, mainVars>>

ConvNext ==
    \/ CallHex
    \/ CallRgba
    \/ CallHsla
    \/ CallEmit

ConvSpec == ConvInit /\ [][ConvNext]_vars

----------------------------------------------------------------------------
(* Lexical shape of hex literals *)

\* '#' followed by exactly 6 or 8 hexadecimal digits
IsHexLiteral(s) ==
    /\ Len(s) \in {7, 9}
    /\ Char(s, 1) = "#"
    /\ AllIn(SubSeq(s, 2, Len(s)), HexDigits)

\* C17: hexToOklchString fails for every literal that is not '#' followed by
\* exactly 6 or 8 hexadecimal digits, and for no literal of that shape
C17_HexShapeChecked ==
    (sortCall.op = "hex" /\ sortResult # NULL)
        => (sortResult[1].threw <=> ~IsHexLiteral(sortCall.args))

----------------------------------------------------------------------------
(* Alpha segment of the functional converters *)

\* the alpha argument of a functional literal: the text after the last comma,
\* up to the closing parenthesis, without white space
AlphaArgument(literal) ==
    Trim(SubSeq(literal, LastIndexOf(literal, ",") + 1, Len(literal) - 1))

\* what each alpha text denotes: whether it equals 1, and its value rounded to
\* three decimals as JavaScript prints it
AlphaTable ==
    [a \in AlphaTexts |->
        CASE a \in {"1", "1.0", "1.000"}  -> [one |-> TRUE,  rounded |-> "1"]
          [] a = "0"                      -> [one |-> FALSE, rounded |-> "0"]
          [] a \in {"0.5", "0.50", ".5"}  -> [one |-> FALSE, rounded |-> "0.5"]
          [] a = "0.25"                   -> [one |-> FALSE, rounded |-> "0.25"]
          [] a = "0.75"                   -> [one |-> FALSE, rounded |-> "0.75"]
          [] a = "0.8"                    -> [one |-> FALSE, rounded |-> "0.8"]
          [] a = "0.1234"                 -> [one |-> FALSE, rounded |-> "0.123"]
          [] a = "0.1236"                 -> [one |-> FALSE, rounded |-> "0.124"]
          [] a = "0.9996"                 -> [one |-> FALSE, rounded |-> "1"]
          [] a = "2"                      -> [one |-> FALSE, rounded |-> "2"]]

\* a functional converter has returned for a valid literal
FunctionalReturned ==
    /\ sortResult # NULL
    /\ \/ sortCall.op = "rgba" /\ sortCall.args \in RgbaLiterals
       \/ sortCall.op = "hsla" /\ sortCall.args \in HslaLiterals

\* C18: the result of rgbaStringToOklchString and hslaStringToOklchString has
\* no alpha segment when the literal's alpha equals 1, and ends with
\* " / <alpha rounded to 3 decimals>" when the alpha is not equal to 1
C18_AlphaSegmentByValue ==
    FunctionalReturned =>
        LET alpha  == AlphaTable[AlphaArgument(sortCall.args)]
            result == sortResult[1]
        IN  /\ ~result.threw
            /\ result.value # NULL
            /\ IF alpha.one
               THEN ~Includes(result.value[1], "/")
               ELSE EndsWith(result.value[1], " / " \o alpha.rounded)

\* C18, amended: the result has no alpha segment when the literal's alpha
\* rounded to 3 decimals is 1, and ends with " / <alpha rounded to 3
\* decimals>" otherwise
C18_AlphaSegmentByRoundedValue ==
    FunctionalReturned =>
        LET alpha  == AlphaTable[AlphaArgument(sortCall.args)]
            result == sortResult[1]
        IN  /\ ~result.threw
            /\ result.value # NULL
            /\ IF alpha.rounded = "1"
               THEN ~Includes(result.value[1], "/")
               ELSE EndsWith(result.value[1], " / " \o alpha.rounded)

\* hslaStringToOklchString has returned for an alpha that is not 1 and rounds
\* to 1: the result is the colour alone
C18_Witness ==
    /\ FunctionalReturned
    /\ sortCall.op = "hsla"
    /\ AlphaArgument(sortCall.args) = "0.9996"
    /\ sortResult[1].value = Some("0.452 0.313 264.052")

----------------------------------------------------------------------------
(* Alpha byte of 8-digit hex literals *)

\* AA / 255 rounded to three decimals, as JavaScript prints it
AlphaByteText ==
    [aa \in HexAlphaDigits \ {""} |->
        CASE aa = "00" -> "0"
          [] aa = "01" -> "0.004"
          [] aa = "33" -> "0.2"
          [] aa = "7f" -> "0.498"
          [] aa = "80" -> "0.502"
          [] aa = "CC" -> "0.8"
          [] aa = "FE" -> "0.996"
          [] aa \in {"FF", "ff"} -> "1"]

\* the loop body has run on a record whose fallback is '#' and 8 hex digits
EmittedHexWithAlpha ==
    /\ sortCall.op = "emit" /\ sortResult # NULL
    /\ sortCall.args[2] \in HexLiterals
    /\ Len(sortCall.args[2]) = 9

\* the base-variable lines of the mode the literal was stored for
BaseLinesOf(mode, acc) == IF mode = "light" THEN acc.lightRgbLines ELSE acc.darkRgbLines

\* the value of a line "  name: value;"
LineValue(line) == SubSeq(line, IndexOf(line, ":") + 2, Len(line) - 1)

\* C19: for every 8-digit hex fallback literal the emitted base-variable value
\* ends with " / <AA/255 rounded to 3 decimals>", for every alpha byte
\* including 00, except that for AA = FF the alpha segment is omitted
C19_HexAlphaByteEmitted ==
    EmittedHexWithAlpha =>
        LET aa    == SubSeq(sortCall.args[2], 8, 9)
            lines == BaseLinesOf(sortCall.args[1], sortResult[1])
        IN  /\ Len(lines) = 1
            /\ StartsWith(lines[1], "  --radix-rgb-red-a1: ")
            /\ IF aa \in {"FF", "ff"}
               THEN ~Includes(LineValue(lines[1]), "/")
               ELSE EndsWith(LineValue(lines[1]), " / " \o AlphaByteText[aa])

----------------------------------------------------------------------------
(* Intermediate variables are defined once, and only for emitted base variables *)

\* the base variable that an intermediate variable wraps
BaseOfIntermediate(name) ==
    "--radix-rgb-" \o SubSeq(name, Len("--radix-intermediate-") + 1, Len(name))

\* no variable is defined by two lines of the block `kind`
DefinedOnce(b, kind) ==
    \A i, j \in KindLines(b, kind) : b[i].name = b[j].name => i = j

\* every line of the block `kind` wraps a base variable that one of the
\* blocks `first`, `second` defines
HasBaseLine(b, kind, first, second) ==
    \A i \in KindLines(b, kind) :
        \E j \in KindLines(b, first) \cup KindLines(b, second) :
            b[j].name = BaseOfIntermediate(b[i].name)

\* C20: in every written family file no intermediate variable is defined twice
\* in the intermediate block nor twice in the intermediate-override block, and
\* an intermediate (intermediate-override) line exists only if the light or
\* dark block (the light-override or dark-override block) holds a line of the
\* base variable of the same index
C20_IntermediateOncePerBase ==
    Written =>
        /\ DefinedOnce(Scanned, "intermediate")
        /\ DefinedOnce(Scanned, "p3intermediate")
        /\ HasBaseLine(Scanned, "intermediate", "light", "dark")
        /\ HasBaseLine(Scanned, "p3intermediate", "p3light", "p3dark")

\* a file is written in which one base variable has a line in the light block
\* and a line in the dark block, and an intermediate line
C20_Witness ==
    /\ Written
    /\ \E i \in KindLines(Scanned, "intermediate") :
          /\ \E j \in KindLines(Scanned, "light") :
                Scanned[j].name = BaseOfIntermediate(Scanned[i].name)
          /\ \E j \in KindLines(Scanned, "dark") :
                Scanned[j].name = BaseOfIntermediate(Scanned[i].name)

----------------------------------------------------------------------------
(* Achromatic colours and the range of the hue *)

\* the three components of "L C H"
LightnessOf(text) == SubSeq(text, 1, IndexOf(text, " ") - 1)
ChromaOf(text) == SubSeq(text, IndexOf(text, " ") + 1, LastIndexOf(text, " ") - 1)
HueOf(text) == SubSeq(text, LastIndexOf(text, " ") + 1, Len(text))

\* a non-negative decimal number with at most three decimals
IsRounded3(t) ==
    LET dot == IndexOf(t, ".")
    IN  /\ t # ""
        /\ AllIn(t, Digits \cup {"."})
        /\ dot = 0 \/ (dot > 1 /\ Len(t) - dot \in 1..3
                       /\ AllIn(SubSeq(t, dot + 1, Len(t)), Digits))

\* hexToOklchString has returned for '#' and 6 or 8 hexadecimal digits
HexReturned ==
    /\ sortCall.op = "hex" /\ sortResult # NULL
    /\ sortCall.args \in HexLiterals
    /\ ~sortResult[1].threw

\* R = G = B
IsAchromatic(hexCode) ==
    /\ SubSeq(hexCode, 2, 3) = SubSeq(hexCode, 4, 5)
    /\ SubSeq(hexCode, 4, 5) = SubSeq(hexCode, 6, 7)

\* C21: for every hex literal with R = G = B hexToOklchString returns chroma 0
\* and hue 0 (#FFFFFF gives "1 0 0", #000000 gives "0 0 0"), and for every
\* valid hex literal the returned hue lies in [0, 360) and each component is
\* rounded to 3 decimals
C21_AchromaticAndHueRange ==
    HexReturned =>
        LET text == sortResult[1].value[1]
            hue  == ParseFloat(HueOf(text))
        IN  /\ IsRounded3(LightnessOf(text))
            /\ IsRounded3(ChromaOf(text))
            /\ IsRounded3(HueOf(text))
            /\ ~hue.nan /\ RLess(hue, Num(360, 1))
            /\ IsAchromatic(sortCall.args) => ChromaOf(text) = "0" /\ HueOf(text) = "0"
            /\ SubSeq(sortCall.args, 1, 7) = "#FFFFFF" => text = "1 0 0"
            /\ SubSeq(sortCall.args, 1, 7) = "#000000" => text = "0 0 0"

----------------------------------------------------------------------------
(* The scope parser on one source text *)

MaxScopeLines == 4

\* selector lines with and without their brace, single and split over lines,
\* an unrecognised selector, closing braces, and one declaration of the stem
ScopeLines ==
    { ":root, .light, .light-theme {", ".dark, .dark-theme {", ":root {",
      ":root,", ".light,", ".light-theme {",
      ".foo {", "}", "  --red-1: #FF0000;" }

\* the texts of at most n lines
RECURSIVE TextsUpTo(_)
TextsUpTo(n) ==
    IF n = 0 THEN {<<>>}
    ELSE LET shorter == TextsUpTo(n - 1)
         IN  shorter \cup {Append(t, l) : t \in shorter, l \in ScopeLines}

\* parseAndGenerateCombinedCss("red", ["red.css"], ...) where red.css holds
\* the text
ScopeInit ==
    /\ baseName = "red"
    /\ sourceFiles = <<[path |-> "red.css", status |-> "ok"]>>
    /\ pc = "parsing"
    /\ fileIdx = 1
    /\ inFile = FALSE
    /\ lineNo = 0
    /\ currentSelectorScope = "unknown"
    /\ braceLevel = 0
    /\ varNamesSeen = <<>>
    /\ combinedParsed = <<>>
    /\ darkSelectorRead = FALSE
    /\ valueDropped = FALSE
    /\ lists = EmptyLists
    /\ dist = <<>>
    /\ sortCall \in {[op |-> "text", args |-> t] : t \in TextsUpTo(MaxScopeLines) \ {<<>>}}
    /\ sortResult = NULL
    /\ MainIdle

\* one iteration of the loop over the lines of the text
ScanLine ==
    /\ pc = "parsing" /\ inFile
    /\ sortCall.op = "text" /\ lineNo < Len(sortCall.args)
    /\ ProcessLine(sortCall.args[lineNo + 1])
    /\ lineNo' = lineNo + 1
    /\ UNCHANGED <<baseName, sourceFiles, pc, fileIdx, inFile, lists, dist, sortVars, mainVars>>

\* the lines of the text are exhausted
ScanEnd ==
    /\ pc = "parsing" /\ inFile
    /\ sortCall.op = "text" /\ lineNo = Len(sortCall.args)
    /\ inFile' = FALSE
    /\ fileIdx' = fileIdx + 1
    /\ UNCHANGED <<baseName, sourceFiles, pc, lineNo, currentSelectorScope, braceLevel,
                   varNamesSeen, combinedParsed, darkSelectorRead, valueDropped, lists, dist,
                   sortVars, mainVars>>

ScopeNext ==
    \/ OpenFile
    \/ ScanLine
    \/ ScanEnd
    \/ Generate

ScopeSpec == ScopeInit /\ [][ScopeNext]_vars

----------------------------------------------------------------------------
(* Scope and nesting depth *)

\* C22: after every processed line the nesting depth is >= 0, the scope light
\* or dark implies depth > 0, and the scope unknown implies depth = 0
C22_ScopeDepth ==
    /\ braceLevel >= 0
    /\ currentSelectorScope \in {"light", "dark"} => braceLevel > 0
    /\ currentSelectorScope = "unknown" => braceLevel = 0

\* the line just processed is a closing brace that took the depth to 0: the
\* parser left the light scope that the first line opened
C22_Witness ==
    /\ inFile /\ lineNo = 3
    /\ sortCall.op = "text"
    /\ SubSeq(sortCall.args, 1, 3) = <<":root {", "}", "}">>
    /\ currentSelectorScope = "unknown" /\ braceLevel = 0

----------------------------------------------------------------------------
(* End of a scope *)

\* the lines that name a recognised selector group and open its block
ScopeOpeners == {":root, .light, .light-theme {", ".dark, .dark-theme {", ":root {"}

\* the text starts with a scope-opening line and the brace that closes its
\* block, and both are processed
BlockClosed ==
    /\ inFile /\ sortCall.op = "text"
    /\ lineNo >= 2
    /\ sortCall.args[1] \in ScopeOpeners
    /\ sortCall.args[2] = "}"

\* C23: once the block opened by a scope-opening line is closed by its
\* matching '}', the parser is back in scope unknown, and a declaration of the
\* stem that follows inside a block with an unrecognised selector is recorded
\* in no slot
C23_ScopeEndsWithBlock ==
    BlockClosed =>
        /\ lineNo = 2 => currentSelectorScope = "unknown"
        /\ (\A k \in 3..lineNo : sortCall.args[k] \in {".foo {", "  --red-1: #FF0000;"})
               => combinedParsed = <<>>

----------------------------------------------------------------------------
(* Start of a scope *)

\* light-mode selector groups up to their opening brace: the root selector
\* alone, the root selector and the light classes on one line, and the same
\* list with one selector per line
LightGroups ==
    { <<":root {">>, <<":root, .light, .light-theme {">>,
      <<":root,", ".light,", ".light-theme {">> }

\* the dark-mode class-selector group
DarkGroups == { <<".dark, .dark-theme {">> }

\* the text starts with the selector group `group` and a declaration of the
\* stem, and the declaration is processed
DeclaredInside(group) ==
    /\ inFile /\ sortCall.op = "text"
    /\ lineNo = Len(group) + 1
    /\ Len(sortCall.args) >= lineNo
    /\ SubSeq(sortCall.args, 1, Len(group)) = group
    /\ sortCall.args[lineNo] = "  --red-1: #FF0000;"

\* C24: the declarations of the stem inside the block that a light-mode
\* selector group opens are recorded into light slots, whether the '{' is on
\* the line that begins the group or on a later line of the selector list;
\* likewise for the dark-mode class-selector group and the dark slots
C24_SelectorGroupOpensScope ==
    /\ \A group \in LightGroups :
          DeclaredInside(group) =>
              /\ "--red-1" \in DOMAIN combinedParsed
              /\ combinedParsed["--red-1"].light.srgb = Some("#FF0000")
              /\ combinedParsed["--red-1"].dark.srgb = NULL
    /\ \A group \in DarkGroups :
          DeclaredInside(group) =>
              /\ "--red-1" \in DOMAIN combinedParsed
              /\ combinedParsed["--red-1"].dark.srgb = Some("#FF0000")
              /\ combinedParsed["--red-1"].light.srgb = NULL

----------------------------------------------------------------------------
(* The scope parser of the variant with a media-query dark mode *)

\* the scope after the scope-start detection of a line
LegacyScopeAfterStart(t, scope) ==
    IF StartsWith(t, ":root,") \/ StartsWith(t, ".light,") \/ StartsWith(t, ":root {")
    THEN "light"
    ELSE IF StartsWith(t, ".dark,") THEN "dark"
    ELSE IF StartsWith(t, "@media") /\ Includes(t, "prefers-color-scheme: dark") THEN "dark"
    ELSE scope

LegacyEmptyValue == [lightValue |-> NULL, darkValue |-> NULL]

\* the body of the loop over the lines of a file, for one line, as a function
\* of st = [scope, brace, parsed] for the group b
LegacyLineLoopStep(st, line, b) ==
    LET trimmedLine == Trim(line)
        scope1  == LegacyScopeAfterStart(trimmedLine, st.scope)
        brace1  == BraceAfterLine(trimmedLine, scope1, st.brace)
        matches == varRegexMatch(trimmedLine)
        records == /\ scope1 \in {"light", "dark"}
                   /\ brace1 > 0
                   /\ StartsWith(trimmedLine, "--")
                   /\ matches # <<>>
                   /\ matches[1] # "" /\ matches[2] # ""
                   /\ StemAccepted(matches[1], expectedStemName(b))
        variableName == matches[1]
        old == IF variableName \in DOMAIN st.parsed
               THEN st.parsed[variableName]
               ELSE LegacyEmptyValue
        new == IF scope1 = "light"
               THEN [old EXCEPT !.lightValue = AssignIfNull(@, matches[2])]
               ELSE [old EXCEPT !.darkValue = AssignIfNull(@, matches[2])]
        closes == ScopeCloses(scope1, brace1)
    IN  [scope  |-> IF closes THEN "unknown" ELSE scope1,
         brace  |-> IF closes THEN 0 ELSE brace1,
         parsed |-> IF records
                    THEN [n \in DOMAIN st.parsed \cup {variableName} |->
                             IF n = variableName THEN new ELSE st.parsed[n]]
                    ELSE st.parsed]

\* the lines of a file with a media-query dark mode
LegacyLines ==
    { ":root, .light, .light-theme {", ".dark, .dark-theme {",
      "@media (prefers-color-scheme: dark) {", "  :root {", "}",
      "  --red-1: #FF0000;", "  --red-2: #0000FF;" }

RECURSIVE LegacyTextsUpTo(_)
LegacyTextsUpTo(n) ==
    IF n = 0 THEN {<<>>}
    ELSE LET shorter == LegacyTextsUpTo(n - 1)
         IN  shorter \cup {Append(t, l) : t \in shorter, l \in LegacyLines}

LegacyInit ==
    /\ baseName = "red"
    /\ sourceFiles = <<[path |-> "red.css", status |-> "ok"]>>
    /\ pc = "parsing"
    /\ fileIdx = 1
    /\ inFile = FALSE
    /\ lineNo = 0
    /\ currentSelectorScope = "unknown"
    /\ braceLevel = 0
    /\ varNamesSeen = <<>>
    /\ combinedParsed = <<>>
    /\ darkSelectorRead = FALSE
    /\ valueDropped = FALSE
    /\ lists = EmptyLists
    /\ dist = <<>>
    /\ sortCall \in {[op |-> "text", args |-> t] : t \in LegacyTextsUpTo(MaxScopeLines) \ {<<>>}}
    /\ sortResult = NULL
    /\ MainIdle

\* one iteration of the loop over the lines of the text
LegacyScanLine ==
    /\ pc = "parsing" /\ inFile
    /\ sortCall.op = "text" /\ lineNo < Len(sortCall.args)
    /\ LET st == LegacyLineLoopStep([scope |-> currentSelectorScope, brace |-> braceLevel,
                                     parsed |-> combinedParsed],
                                    sortCall.args[lineNo + 1], baseName)
       IN  /\ currentSelectorScope' = st.scope
           /\ braceLevel' = st.brace
           /\ combinedParsed' = st.parsed
    /\ lineNo' = lineNo + 1
    /\ UNCHANGED <<baseName, sourceFiles, pc, fileIdx, inFile, varNamesSeen, darkSelectorRead,
                   valueDropped, lists, dist, sortVars, mainVars>>

LegacyNext ==
    \/ OpenFile
    \/ LegacyScanLine
    \/ ScanEnd

LegacySpec == LegacyInit /\ [][LegacyNext]_vars

----------------------------------------------------------------------------
(* Media-query dark mode *)

MediaLine == "@media (prefers-color-scheme: dark) {"

\* the blocks a dark-mode media query opens: the query itself, and a root
\* selector nested in it
MediaGroups == { <<MediaLine>>, <<MediaLine, "  :root {">> }

\* the text starts with the lines of `group` and a declaration of the stem,
\* and the declaration is processed
DeclaredInMedia(group) ==
    /\ inFile /\ sortCall.op = "text"
    /\ lineNo = Len(group) + 1
    /\ Len(sortCall.args) >= lineNo
    /\ SubSeq(sortCall.args, 1, Len(group)) = group
    /\ sortCall.args[lineNo] = "  --red-1: #FF0000;"

\* C25: every declaration of the stem inside a block opened by a
\* '@media (prefers-color-scheme: dark)' line, also when it is nested under
\* ':root {' inside the media query, is recorded in the dark slot and never in
\* the light slot
C25_MediaQueryIsDark ==
    \A group \in MediaGroups :
        DeclaredInMedia(group) =>
            /\ "--red-1" \in DOMAIN combinedParsed
            /\ combinedParsed["--red-1"].darkValue = Some("#FF0000")
            /\ combinedParsed["--red-1"].lightValue = NULL

----------------------------------------------------------------------------
(* Gamut overrides *)

\* the lines of the block `kind` that define the variable `name`
LinesOf(b, kind, name) == {i \in KindLines(b, kind) : b[i].name = name}

\* the block `kind` holds one line of the base variable of index x, carrying
\* the literal, and the intermediate-override block exactly one line
\* '<intermediate>: var(<base>);'
OverrideEmitted(b, kind, x, literal) ==
    /\ Cardinality(LinesOf(b, kind, BaseVar(x))) = 1
    /\ \A i \in LinesOf(b, kind, BaseVar(x)) :
          Trim(Out[i]) = BaseVar(x) \o ": " \o literal \o ";"
    /\ Cardinality(LinesOf(b, "p3intermediate", IntermediateVar(x))) = 1
    /\ \A i \in LinesOf(b, "p3intermediate", IntermediateVar(x)) :
          Trim(Out[i]) = IntermediateVar(x) \o ": var(" \o BaseVar(x) \o ");"

\* C26: for every record with a light-gamut (dark-gamut) literal, with or
\* without a fallback literal, the light (dark) gamut-override block holds one
\* base-variable line carrying that literal unchanged, and the
\* intermediate-override block holds exactly one line
\* '<intermediate>: var(<base>);' for the variable
C26_GamutOverrideEmitted ==
    Written =>
        \A k \in DOMAIN combinedParsed :
            LET rec == combinedParsed[k]
                x   == IndexOfKey(k)
            IN  /\ rec.light.p3 # NULL => OverrideEmitted(Scanned, "p3light", x, rec.light.p3[1])
                /\ rec.dark.p3 # NULL => OverrideEmitted(Scanned, "p3dark", x, rec.dark.p3[1])

----------------------------------------------------------------------------
(* The emitter on declarations in every source order *)

MaxOrderDecls == 3

\* declarations of solid and alpha indexes, of one name whose index does not
\* parse, and gamut literals
OrderDecls ==
    { "  --red-2: #FF0000;", "  --red-10: #0000FF;", "  --red-a1: #FF000080;",
      "  --red-1x: #FF0000;",
      "  --red-2: color(display-p3 1 0 0);", "  --red-10: color(display-p3 0 0 1);" }

\* the sequences of at most n different declarations
RECURSIVE DeclsUpTo(_)
DeclsUpTo(n) ==
    IF n = 0 THEN {<<>>}
    ELSE LET shorter == DeclsUpTo(n - 1)
         IN  shorter \cup UNION {{Append(t, l) : l \in OrderDecls \ {t[i] : i \in 1..Len(t)}} :
                                    t \in shorter}

\* parseAndGenerateCombinedCss("red", ["red.css"], ...) where red.css holds
\* one light or dark block with the declarations
OrderInit ==
    /\ baseName = "red"
    /\ sourceFiles = <<[path |-> "red.css", status |-> "ok"]>>
    /\ pc = "parsing"
    /\ fileIdx = 1
    /\ inFile = FALSE
    /\ lineNo = 0
    /\ currentSelectorScope = "unknown"
    /\ braceLevel = 0
    /\ varNamesSeen = <<>>
    /\ combinedParsed = <<>>
    /\ darkSelectorRead = FALSE
    /\ valueDropped = FALSE
    /\ lists = EmptyLists
    /\ dist = <<>>
    /\ sortCall \in {[op |-> "text", args |-> <<opener>> \o t] :
                        opener \in {":root, .light, .light-theme {", ".dark, .dark-theme {"},
                        t \in DeclsUpTo(MaxOrderDecls) \ {<<>>}}
    /\ sortResult = NULL
    /\ MainIdle

OrderSpec == OrderInit /\ [][ScopeNext]_vars

----------------------------------------------------------------------------
(* Order of the lines of a block *)

\* Deterministic Ordering of two indexes: solid before alpha, and ascending
\* numbers within each group
IndexBeforeOrEqual(ia, ib) ==
    IF IsAlphaIndex(ia) # IsAlphaIndex(ib) THEN IsAlphaIndex(ib)
    ELSE IndexNumber(ia) <= IndexNumber(ib)

\* C27: in every block of a written family file the lines follow the
\* Deterministic Ordering of their variables, whatever the order of the
\* declarations in the source: solid indexes in ascending numeric order, then
\* alpha indexes in ascending numeric order
C27_BlocksOrdered ==
    Written =>
        \A kind \in AllKinds :
            \A i, j \in KindLines(Scanned, kind) :
                i < j => IndexBeforeOrEqual(TrailingIndex(Scanned[i].name),
                                            TrailingIndex(Scanned[j].name))

----------------------------------------------------------------------------
(* Read failures abort the run *)

\* the read of a source file has failed for another reason than ENOENT
SomeTaskFailed == \E i \in 1..Len(tasks) : tasks[i].pc = "failed"

\* C28: if reading a source file fails for a reason other than file-not-found,
\* the failure leaves the family's task and the run ends in error: main never
\* lists the output directory and the manifest is never written, whichever
\* other tasks have written their files
C28_ReadFailureAborts ==
    SomeTaskFailed =>
        /\ mainPc \in {"awaiting", "failed"}
        /\ ManifestName \notin DOMAIN dist
        /\ generatedFiles = <<>>

\* the run has ended in error after another family's task wrote its file
C28_Witness ==
    /\ mainPc = "failed"
    /\ SomeTaskFailed
    /\ \E i \in 1..Len(tasks) :
          tasks[i].pc = "done" /\ OutputFileName(fileGroups[i].baseName) \in DOMAIN dist
    /\ ManifestName \notin DOMAIN dist

----------------------------------------------------------------------------
(* The helpers for the Tailwind CSS config *)

\* familyName.replace(/Alpha$/, "")
CleanedFamilyName(familyName) ==
    IF EndsWith(familyName, "Alpha")
    THEN SubSeq(familyName, 1, Len(familyName) - Len("Alpha"))
    ELSE familyName

\* (isAlpha ? `a${number}` : number).toString()
CleanedNumber(familyName, number) ==
    IF EndsWith(familyName, "Alpha") THEN "a" \o ToString(number) ELSE ToString(number)

transformOneRadixColor(familyName, number) ==
    IF EndsWith(familyName, "Alpha")
    THEN "rgb(var(--radix-rgb-" \o CleanedFamilyName(familyName) \o "-"
             \o CleanedNumber(familyName, number) \o "))"
    ELSE "rgb(var(--radix-rgb-" \o CleanedFamilyName(familyName) \o "-"
             \o CleanedNumber(familyName, number) \o ") / <alpha-value>)"

\* Array.from({ length: 12 }, (_, i) => i + 1)
StepNumbers == 1..12

\* the object built by the reduce: one property per number
transformRadixColors(familyName) ==
    [k \in {ToString(n) : n \in StepNumbers} |->
        LET number == CHOOSE n \in StepNumbers : ToString(n) = k
        IN  "rgb(var(--radix-rgb-" \o CleanedFamilyName(familyName) \o "-"
                \o CleanedNumber(familyName, number) \o ") / <alpha-value>)"]

\* the object built by the reduce: two properties per number
transformRadixColorsWithAlpha(familyName) ==
    [k \in {ToString(n) : n \in StepNumbers} \cup {"a" \o ToString(n) : n \in StepNumbers} |->
        IF StartsWith(k, "a")
        THEN "rgb(var(--radix-rgb-" \o familyName \o "-" \o k \o "))"
        ELSE "rgb(var(--radix-rgb-" \o familyName \o "-" \o k \o ") / <alpha-value>)"]

\* family names, with and without the suffix that marks an alpha family
FamilyNames == {"red", "blue", "mauve", "redAlpha", "blueAlpha", "Alphabet"}

\* the calls of the three helpers
ConfigCalls ==
    {[op |-> "one", args |-> <<f, n>>] : f \in FamilyNames, n \in StepNumbers}
    \cup {[op |-> "family", args |-> f] : f \in FamilyNames}
    \cup {[op |-> "withAlpha", args |-> f] : f \in FamilyNames}

ConfigInit ==
    /\ PipelineIdle
    /\ MainIdle
    /\ sortCall \in ConfigCalls
    /\ sortResult = NULL

CallTransformOne ==
    /\ sortCall.op = "one" /\ sortResult = NULL
    /\ sortResult' = Some(transformOneRadixColor(sortCall.args[1], sortCall.args[2]))
    /\ UNCHANGED <<sortCall, pipelineVars, mainVars>>

CallTransformFamily ==
    /\ sortCall.op = "family" /\ sortResult = NULL
    /\ sortResult' = Some(transformRadixColors(sortCall.args))
    /\ UNCHANGED <<sortCall, pipelineVars, mainVars>>

CallTransformWithAlpha ==
    /\ sortCall.op = "withAlpha" /\ sortResult = NULL
    /\ sortResult' = Some(transformRadixColorsWithAlpha(sortCall.args))
    /\ UNCHANGED <<sortCall, pipelineVars, mainVars>>

ConfigNext ==
    \/ CallTransformOne
    \/ CallTransformFamily
    \/ CallTransformWithAlpha

ConfigSpec == ConfigInit /\ [][ConfigNext]_vars

----------------------------------------------------------------------------
(* Agreement of the helpers *)

\* C29: for every family name f, also one ending in "Alpha", and every n in
\* 1..12, transformRadixColors(f)[n] equals transformOneRadixColor(f, n); and
\* transformRadixColorsWithAlpha(f) has exactly the keys 1..12 and a1..a12,
\* with [n] = transformOneRadixColor(f, n) and
\* ['a' + n] = transformOneRadixColor(f + 'Alpha', n)
C29_HelpersAgree ==
    /\ (sortCall.op = "family" /\ sortResult # NULL) =>
          \A n \in 1..12 :
              sortResult[1][ToString(n)] = transformOneRadixColor(sortCall.args, n)
    /\ (sortCall.op = "withAlpha" /\ sortResult # NULL) =>
          /\ DOMAIN sortResult[1] =
                 {ToString(n) : n \in 1..12} \cup {"a" \o ToString(n) : n \in 1..12}
          /\ \A n \in 1..12 :
                /\ sortResult[1][ToString(n)] = transformOneRadixColor(sortCall.args, n)
                /\ sortResult[1]["a" \o ToString(n)] =
                       transformOneRadixColor(sortCall.args \o "Alpha", n)

----------------------------------------------------------------------------
(* hexToRgb of the first generator *)

\* Number.prototype.toString of parseInt's result
IntText(x) == IF x.nan THEN "NaN" ELSE ToString(x.n)

\* a is truthy: neither undefined (no fourth pair), nor NaN, nor 0
AlphaTruthy(hexCode, a) == Len(hexCode) = 9 /\ ~a.nan /\ a.n # 0

hexToRgb(hexCode) ==
    IF ~StartsWith(hexCode, "#") \/ (Len(hexCode) # 7 /\ Len(hexCode) # 9)
    THEN Threw
    ELSE LET hexValue == SubSeq(hexCode, 2, Len(hexCode))
             \* hexValue.match(/.{2}/g).map(hexPair => parseInt(hexPair, 16))
             r == ParseIntHexPair(SubSeq(hexValue, 1, 2))
             g == ParseIntHexPair(SubSeq(hexValue, 3, 4))
             b == ParseIntHexPair(SubSeq(hexValue, 5, 6))
             a == IF Len(hexCode) = 9 THEN ParseIntHexPair(SubSeq(hexValue, 7, 8)) ELSE NaN
             rgb == IntText(r) \o " " \o IntText(g) \o " " \o IntText(b)
         IN  IF AlphaTruthy(hexCode, a)
             THEN Returned(Some(rgb \o " / "
                                \o ThousandthsToString(RoundThousandths(Num(a.n, 255)))))
             ELSE Returned(Some(rgb))

HexChars ==
    <<"0", "1", "2", "3", "4", "5", "6", "7", "8", "9", "A", "B", "C", "D", "E", "F">>

\* the two hexadecimal digits of a byte
ByteText(n) == HexChars[(n \div 16) + 1] \o HexChars[(n % 16) + 1]

\* some colours; each with no alpha byte and with every alpha byte
RgbColours == {<<255, 0, 0>>, <<0, 0, 0>>, <<18, 52, 86>>, <<171, 205, 239>>}

RgbLiterals ==
    {"#" \o ByteText(c[1]) \o ByteText(c[2]) \o ByteText(c[3]) : c \in RgbColours}
    \cup {"#" \o ByteText(c[1]) \o ByteText(c[2]) \o ByteText(c[3]) \o ByteText(a) :
             c \in {<<255, 0, 0>>, <<18, 52, 86>>}, a \in 0..255}

\* literals without '#' or of another length
OtherRgbLiterals == {"FF0000", "FF0000FF", "#F00", "#FF00", "#FF00000", "#FF0000FF0", "", "#"}

RgbInit ==
    /\ PipelineIdle
    /\ MainIdle
    /\ sortCall \in {[op |-> "hexToRgb", args |-> l] : l \in RgbLiterals \cup OtherRgbLiterals}
    /\ sortResult = NULL

\* the call hexToRgb(hexCode) returns or throws
CallHexToRgb ==
    /\ sortCall.op = "hexToRgb" /\ sortResult = NULL
    /\ sortResult' = Some(hexToRgb(sortCall.args))
    /\ UNCHANGED <<sortCall, pipelineVars, mainVars>>

RgbNext == CallHexToRgb

RgbSpec == RgbInit /\ [][RgbNext]_vars

----------------------------------------------------------------------------
(* Result of hexToRgb *)

\* the byte that two hexadecimal digits denote
ByteOf(pair) == CHOOSE n \in 0..255 : ByteText(n) = pair

\* "R G B" in decimal
DecimalTriple(hexCode) ==
    ToString(ByteOf(SubSeq(hexCode, 2, 3))) \o " " \o ToString(ByteOf(SubSeq(hexCode, 4, 5)))
        \o " " \o ToString(ByteOf(SubSeq(hexCode, 6, 7)))

\* the alpha byte divided by 255, rounded to three decimals
AlphaText(a) == ThousandthsToString((2000 * a + 255) \div 510)

\* C30: for every 6-digit hex literal hexToRgb gives 'R G B' in decimal, for
\* every 8-digit hex literal, with every alpha byte from 00 to FF, it gives
\* 'R G B / A' where A is the alpha byte divided by 255 and rounded to 3
\* decimals, and it fails for every literal that does not start with '#' or
\* is not of length 7 or 9
C30_HexToRgb ==
    (sortCall.op = "hexToRgb" /\ sortResult # NULL) =>
        LET hexCode == sortCall.args
            result  == sortResult[1]
        IN  /\ (hexCode \in RgbLiterals /\ Len(hexCode) = 7)
                   => result = Returned(Some(DecimalTriple(hexCode)))
            /\ (hexCode \in RgbLiterals /\ Len(hexCode) = 9)
                   => result = Returned(Some(DecimalTriple(hexCode) \o " / "
                                             \o AlphaText(ByteOf(SubSeq(hexCode, 8, 9)))))
            /\ (~StartsWith(hexCode, "#") \/ Len(hexCode) \notin {7, 9}) => result.threw

====
